---- MODULE Spec2Model ----
(***************************************************************************)
(* A model of infix: the rule engine (rules/), the shard rewrite pipeline  *)
(* (command/command.go), the cached rewriter (storage/) and the            *)
(* configuration loader (rules/config.go).                                 *)
(***************************************************************************)
EXTENDS Integers, Sequences, FiniteSets, TLC

(***************************************************************************)
(* Bounds of the model.                                                    *)
(***************************************************************************)
MaxRules == 2

MaxKeys == 2

MaxEntries == 2

(***************************************************************************)
(* Generic helpers: Go maps are functions with a finite domain.            *)
(***************************************************************************)
EmptyMap == <<>>

MapPut(m, k, v) == [x \in (DOMAIN m) \cup {k} |-> IF x = k THEN v ELSE m[x]]

Range(s) == {s[i] : i \in DOMAIN s}

RECURSIVE SeqsUpTo(_, _)
\* every sequence over S of length at most n
SeqsUpTo(S, n) ==
    IF n = 0 THEN {<<>>}
    ELSE LET shorter == SeqsUpTo(S, n - 1)
         IN  shorter \cup {Append(s, x) : s \in {t \in shorter : Len(t) = n - 1}, x \in S}

\* every ordering of the finite set S, as a sequence without repetition
Orderings(S) ==
    {s \in [1..Cardinality(S) -> S] : \A i, j \in 1..Cardinality(S) : i # j => s[i] # s[j]}

(***************************************************************************)
(* Composite keys.  A key is measurement,host=<t> <delimiter> field; the   *)
(* three components are kept apart, which is what                          *)
(* SeriesAndFieldFromCompositeKey and models.ParseKey recover.             *)
(***************************************************************************)
MeasOrder == <<"cpu", "linux", "linux.cpu", "mem">>

\* a series key has no field and is below the keys of its fields
FieldOrder == <<"", "busy", "idle", "up">>

HostOrder == <<"h1", "h2">>

Measurements == Range(MeasOrder)

FieldNames == Range(FieldOrder)

Hosts == Range(HostOrder)

\* the nil []byte a rule returns to drop a key: it parses to empty components
NullKey == [m |-> "", t |-> "", f |-> ""]

MakeKey(m, t, f) == [m |-> m, t |-> t, f |-> f]

Rank(order, x) == CHOOSE i \in DOMAIN order : order[i] = x

\* bytewise order of composite keys: measurement, then tags, then field
KeyLess(a, b) ==
    LET am == Rank(MeasOrder, a.m)
        bm == Rank(MeasOrder, b.m)
        at == Rank(HostOrder, a.t)
        bt == Rank(HostOrder, b.t)
        af == Rank(FieldOrder, a.f)
        bf == Rank(FieldOrder, b.f)
    IN  \/ am < bm
        \/ am = bm /\ at < bt
        \/ am = bm /\ at = bt /\ af < bf

(***************************************************************************)
(* Values.  A value is a timestamp and a typed payload.  The payload is an *)
(* integer: a boolean is 0 or 1, a float counts halves (3 stands for 1.5), *)
(* so that a float with a fractional part exists; the payload of a string  *)
(* is kept apart, in s.  An int64 is IntBits wide.                         *)
(***************************************************************************)
Types == {"float", "integer", "unsigned", "boolean", "string"}

IntBits == 4

MaxInt64 == 2 ^ (IntBits - 1) - 1

MinInt64 == -(2 ^ (IntBits - 1))

\* the architectures the command is built for
Builds == {"amd64", "arm64"}

VARIABLES
    build       \* the architecture of the build that runs

Value(ts, type, v) == [ts |-> ts, type |-> type, v |-> v, s |-> ""]

NewStringValue(ts, s) == [ts |-> ts, type |-> "string", v |-> 0, s |-> s]

NoValues == <<>>

\* tsm1.Values.InfluxQLType: the type of the batch, an error on an empty one
InfluxQLType(values) ==
    IF Len(values) = 0 THEN [err |-> TRUE, type |-> "unknown"]
    ELSE [err |-> FALSE, type |-> values[1].type]

(***************************************************************************)
(* Filters (filter/filter.go).  A leaf filter is kept by its kind and the  *)
(* strings it lists.                                                       *)
(***************************************************************************)
IncludeFilter(set) == [type |-> "include", set |-> set]

ExcludeFilter(set) == [type |-> "exclude", set |-> set]

AlwaysTrueFilter == [type |-> "alwaysTrue", set |-> {}]

AlwaysFalseFilter == [type |-> "alwaysFalse", set |-> {}]

PassFilter == [type |-> "pass", set |-> {}]

\* NewPatternFilter of the pattern ^(a|b)$, a and b the strings of set
PatternFilter(set) == [type |-> "pattern", set |-> set]

\* NewStringFilter of a configuration with HasPrefix
HasPrefixFilter(prefix) == [type |-> "hasPrefix", set |-> {prefix}]

\* strings.HasPrefix
HasPrefix(s, prefix) == Len(s) >= Len(prefix) /\ SubSeq(s, 1, Len(prefix)) = prefix

\* Filter.Filter on the string s
Filter(f, s) ==
    CASE f.type = "include" -> s \in f.set
      [] f.type = "exclude" -> s \notin f.set
      [] f.type = "alwaysTrue" -> TRUE
      [] f.type = "alwaysFalse" -> FALSE
      [] f.type = "pass" -> FALSE
      [] f.type = "pattern" -> s \in f.set
      [] f.type = "where" -> s \in f.set
      [] f.type = "hasPrefix" -> \E prefix \in f.set : HasPrefix(s, prefix)

\* Regexp.Expand of a replacement template, $1 being the group given
Expand(template, group) ==
    CASE template = "linux.$1" -> "linux." \o group
      [] template = "dc-$1" -> "dc-" \o group
      [] template = "$1" -> group
      [] OTHER -> template

\* Pattern.ReplaceAll(name, to) of a pattern filter: the pattern matches the
\* whole of a name or nothing of it
ReplaceAll(f, name, to) == IF name \in f.set THEN Expand(to, name) ELSE name

\* MeasurementFilter.Filter: the wrapped filter on the measurement of the key
MeasurementFilter(f, key) == Filter(f, key.m)

\* tsm1.SeriesFieldKeyBytes: the bytes of the composite key
SeriesFieldKeyBytes(key) == key.m \o ",host=" \o key.t \o "#!~#" \o key.f

\* NewWhereFilter of the tag host with the pattern ^(a|b)$, a and b the
\* strings of set; Filter gives it the tags of the series key
NewWhereFilter(set) == [type |-> "where", set |-> set]

\* the nil Filter of a configuration that names none
NilFilter == [type |-> "nil", set |-> {}]

NewSerieFilter(measurementFilter, tagsFilter, fieldFilter) ==
    [type |-> "serie", measurementFilter |-> measurementFilter,
     tagsFilter |-> tagsFilter, fieldFilter |-> fieldFilter]

NewRawSerieFilter(f) == [type |-> "rawSerie", filter |-> f]

\* tsm1.SeriesAndFieldFromCompositeKey: the key up to the separator and the
\* field after it; a key without separator is its own series key and has a
\* nil field
SeriesAndFieldFromCompositeKey(key) ==
    [seriesKey |-> MakeKey(key.m, key.t, ""), field |-> key.f]

\* SerieFilter.Filter
SerieFilterFilter(f, key) ==
    LET parts == SeriesAndFieldFromCompositeKey(key)
    IN  IF f.fieldFilter = NilFilter
        THEN /\ Filter(f.measurementFilter, parts.seriesKey.m)
             /\ Filter(f.tagsFilter, parts.seriesKey.t)
        ELSE /\ Filter(f.measurementFilter, parts.seriesKey.m)
             /\ Filter(f.tagsFilter, parts.seriesKey.t)
             /\ Filter(f.fieldFilter, parts.field)

\* RawSerieFilter.Filter: the wrapped filter on the series key of the key
RawSerieFilterFilter(f, key) ==
    SerieFilterFilter(f.filter, SeriesAndFieldFromCompositeKey(key).seriesKey)

(***************************************************************************)
(* The field index of a shard (tsdb.MeasurementFieldSet): measurement ->   *)
(* field -> type.  A shard holds [nil, cur, disk, orig]: whether it has no *)
(* index object, the set in memory, the set last written to fields.idx,    *)
(* and the set fields.idx held when the shard was loaded.                  *)
(***************************************************************************)
ShardIndex(cur, disk) == [nil |-> FALSE, cur |-> cur, disk |-> disk, orig |-> disk]

\* MeasurementFieldSet.Save: the set in memory is written to the sidecar file
Save(ix) == [ix EXCEPT !.disk = ix.cur]

\* some order of the finite set S, for loops whose result the order cannot change
AnyOrder(S) == CHOOSE o \in Orderings(S) : TRUE

NilFields == [nil |-> TRUE, fields |-> EmptyMap]

FieldsByString(idx, name) ==
    IF name \in DOMAIN idx THEN [nil |-> FALSE, fields |-> idx[name]] ELSE NilFields

IndexDelete(idx, name) == [x \in (DOMAIN idx) \ {name} |-> idx[x]]

\* CreateFieldsIfNotExists: the fields of name, created empty when absent
CreateFieldsIfNotExists(idx, name) ==
    IF name \in DOMAIN idx THEN idx ELSE MapPut(idx, name, EmptyMap)

\* MeasurementFields.CreateFieldIfNotExists: a conflict of types is an error
CreateFieldIfNotExists(mf, name, type) ==
    IF name \in DOMAIN mf
    THEN [err |-> mf[name] # type, fields |-> mf]
    ELSE [err |-> FALSE, fields |-> MapPut(mf, name, type)]

RECURSIVE CreateAll(_, _, _)
\* the loop  for name, type := range fieldSet { CreateFieldIfNotExists }  in the
\* order given; it stops at the first error
CreateAll(mf, fieldSet, order) ==
    IF order = <<>> THEN [err |-> FALSE, fields |-> mf]
    ELSE LET r == CreateFieldIfNotExists(mf, order[1], fieldSet[order[1]])
         IN  IF r.err THEN r ELSE CreateAll(r.fields, fieldSet, Tail(order))

(***************************************************************************)
(* Rules.  A rule is its configuration; its accumulator (the map it fills  *)
(* in Apply and replays in EndShard) is kept apart, in rstate.             *)
(***************************************************************************)
TSMReadOnly == 1

WALReadOnly == 2

TSMWriteOnly == 4

WALWriteOnly == 8

ReadOnly == {TSMReadOnly, WALReadOnly}

Standard == {TSMWriteOnly, WALWriteOnly}

\* a rule configuration with nothing set; the constructors fill what they use
BaseRule ==
    [kind |-> "", measurement |-> AlwaysFalseFilter, field |-> AlwaysFalseFilter,
     type |-> AlwaysTrueFilter, to |-> "", fromType |-> "", toType |-> "",
     byField |-> FALSE, dropFilter |-> NewRawSerieFilter(NilFilter), unixNano |-> 0,
     key |-> AlwaysFalseFilter, value |-> AlwaysFalseFilter]

NewDropMeasurementWithFilter(f) ==
    [BaseRule EXCEPT !.kind = "drop-measurement", !.measurement = f]

NewRenameMeasurementWithFilter(f, to) ==
    [BaseRule EXCEPT !.kind = "rename-measurement", !.measurement = f, !.to = to]

NewDropField(measurementFilter, fieldFilter, typeFilter) ==
    [BaseRule EXCEPT !.kind = "drop-field", !.measurement = measurementFilter,
                     !.field = fieldFilter, !.type = typeFilter]

\* NewRenameField with the renameFn RenameFieldRuleConfig.Build makes of to
NewRenameField(measurement, field, to) ==
    [BaseRule EXCEPT !.kind = "rename-field", !.measurement = measurement,
                     !.field = field, !.to = to]

NewUpdateFieldType(measurementFilter, fieldFilter, fromType, toType) ==
    [BaseRule EXCEPT !.kind = "update-field-type", !.measurement = measurementFilter,
                     !.field = fieldFilter, !.fromType = fromType, !.toType = toType]

\* NewOldSerieRule of the time t, in nanoseconds
NewOldSerieRule(t, byField) ==
    [BaseRule EXCEPT !.kind = "old-serie", !.unixNano = t, !.byField = byField]

\* NewUpdateTagValueRule with the renameFn of the value filter and to
NewUpdateTagValueRule(measurementFilter, keyFilter, valueFilter, to) ==
    [BaseRule EXCEPT !.kind = "update-tag-value", !.measurement = measurementFilter,
                     !.key = keyFilter, !.value = valueFilter, !.to = to]

NewShowFieldKeyMultipleTypes(measurementFilter, fieldFilter) ==
    [BaseRule EXCEPT !.kind = "show-field-key-multiple-types",
                     !.measurement = measurementFilter, !.field = fieldFilter]

NewDropSerieRule(dropFilter) ==
    [BaseRule EXCEPT !.kind = "drop-serie", !.dropFilter = dropFilter]

\* DropSerieRuleConfig.Build
DropSerieRuleConfigBuild(dropFilter) == NewDropSerieRule(NewRawSerieFilter(dropFilter))

\* a Rule of another package, as NewCommandWithRules takes them: it declines
\* every shard, takes every key and returns what it is given
NewDecliningRule ==
    [BaseRule EXCEPT !.kind = "declining", !.measurement = AlwaysTrueFilter]

\* old-serie flagged as the rules that rewrite are
FlagsStandard(r) == Standard

\* Rule.Flags, as the set of the bits that are set
Flags(r) ==
    CASE r.kind = "old-serie" -> {TSMReadOnly}
      [] r.kind = "show-field-key-multiple-types" -> ReadOnly
      [] OTHER -> Standard

\* the result of Rule.Apply
ApplyResult(key, values, err, acc) ==
    [key |-> key, values |-> values, err |-> err, acc |-> acc]

\* the result of Rule.EndShard: the index in memory, the number of Save calls,
\* the error returned and the accumulator
EndShardResult(idx, saves, err, acc) ==
    [idx |-> idx, saves |-> saves, err |-> err, acc |-> acc]

\* RenameFnFromFilter(f, to) on name: the replacement by to of what the
\* pattern matches when f is a pattern filter, the constant to otherwise
RenameFnFromFilter(f, to, name) ==
    IF f.type = "pattern" THEN ReplaceAll(f, name, to) ELSE to

\* the RenameFn the configuration of the rule r builds: from the value filter
\* in update-tag-value, from the measurement filter in rename-measurement and
\* in rename-field
RenameFn(r, name) ==
    CASE r.kind = "update-tag-value" -> RenameFnFromFilter(r.value, r.to, name)
      [] OTHER -> RenameFnFromFilter(r.measurement, r.to, name)

(***************************************************************************)
(* drop-measurement                                                        *)
(***************************************************************************)
DropMeasurementApply(r, acc, key, values) ==
    IF MeasurementFilter(r.measurement, key)
    THEN ApplyResult(NullKey, NoValues, FALSE, MapPut(acc, key.m, TRUE))
    ELSE ApplyResult(key, values, FALSE, acc)

RECURSIVE DeleteAll(_, _)
DeleteAll(idx, order) ==
    IF order = <<>> THEN idx ELSE DeleteAll(IndexDelete(idx, order[1]), Tail(order))

\* StartShard keeps r.dropped: only r.shard is set
DropMeasurementStartShard(acc) == acc

DropMeasurementEndShard(acc, ix, check) ==
    IF DOMAIN acc = {} \/ ix.nil THEN {EndShardResult(ix, 0, FALSE, acc)}
    ELSE LET deleted == [ix EXCEPT !.cur = DeleteAll(ix.cur, AnyOrder(DOMAIN acc))]
         IN  {EndShardResult(IF check THEN deleted ELSE Save(deleted),
                             IF check THEN 0 ELSE 1, FALSE, EmptyMap)}

(***************************************************************************)
(* rename-measurement                                                      *)
(***************************************************************************)
\* Apply with the constant to for every from filter
RenameMeasurementApplyConstant(r, acc, key, values) ==
    IF MeasurementFilter(r.measurement, key)
    THEN ApplyResult(MakeKey(r.to, key.t, key.f), values, FALSE, MapPut(acc, key.m, r.to))
    ELSE ApplyResult(key, values, FALSE, acc)

RenameMeasurementApply(r, acc, key, values) ==
    IF MeasurementFilter(r.measurement, key)
    THEN LET newName == RenameFn(r, key.m)
         IN  ApplyResult(MakeKey(newName, key.t, key.f), values, FALSE,
                         MapPut(acc, key.m, newName))
    ELSE ApplyResult(key, values, FALSE, acc)

RECURSIVE RenameMeasurementReplayNoCopy(_, _, _)
\* the replay without the copy of the fields of the old name
RenameMeasurementReplayNoCopy(idx, renamed, order) ==
    IF order = <<>> THEN [err |-> FALSE, idx |-> idx]
    ELSE RenameMeasurementReplayNoCopy(
             CreateFieldsIfNotExists(IndexDelete(IndexDelete(idx, order[1]), renamed[order[1]]),
                                     renamed[order[1]]),
             renamed, Tail(order))

RECURSIVE RenameMeasurementReplay(_, _, _)
\* the loop over r.renamed in the order given: [err, idx]
RenameMeasurementReplay(idx, renamed, order) ==
    IF order = <<>> THEN [err |-> FALSE, idx |-> idx]
    ELSE LET oldName == order[1]
             newName == renamed[oldName]
             oldFields == FieldsByString(idx, oldName)
         IN  IF oldFields.nil THEN [err |-> TRUE, idx |-> idx]
             ELSE LET deleted == IndexDelete(IndexDelete(idx, oldName), newName)
                      created == CreateFieldsIfNotExists(deleted, newName)
                      copied == CreateAll(created[newName], oldFields.fields,
                                          AnyOrder(DOMAIN oldFields.fields))
                  IN  IF copied.err THEN [err |-> TRUE, idx |-> created]
                      ELSE RenameMeasurementReplay(
                               [created EXCEPT ![newName] = copied.fields],
                               renamed, Tail(order))

\* StartShard keeps r.renamed: only r.shard is set
RenameMeasurementStartShard(acc) == acc

\* one result for each order in which the Go map r.renamed may be ranged over
RenameMeasurementEndShard(acc, ix, check) ==
    IF DOMAIN acc = {} \/ ix.nil THEN {EndShardResult(ix, 0, FALSE, acc)}
    ELSE {LET r == RenameMeasurementReplay(ix.cur, acc, order)
              replayed == [ix EXCEPT !.cur = r.idx]
          IN  IF r.err THEN EndShardResult(replayed, 0, TRUE, acc)
              ELSE EndShardResult(IF check THEN replayed ELSE Save(replayed),
                                  IF check THEN 0 ELSE 1, FALSE, EmptyMap)
          : order \in Orderings(DOMAIN acc)}

(***************************************************************************)
(* drop-field                                                              *)
(***************************************************************************)
DropFieldApply(r, acc, key, values) ==
    LET dataType == InfluxQLType(values)
    IN  IF dataType.err THEN ApplyResult(NullKey, NoValues, TRUE, acc)
        ELSE IF /\ MeasurementFilter(r.measurement, key)
                /\ Filter(r.field, key.f)
                /\ Filter(r.type, dataType.type)
        THEN \* a field appended to the list of a known measurement is appended
             \* to the local slice only: r.deleted keeps the list it had
             ApplyResult(NullKey, NoValues, FALSE,
                         IF key.m \in DOMAIN acc THEN acc
                         ELSE MapPut(acc, key.m, <<key.f>>))
        ELSE ApplyResult(key, values, FALSE, acc)

RECURSIVE DropFieldKeeps(_, _, _, _)
\* the inner loop of EndShard for the field name: whether tmpFields receives it.
\* It is stored at every turn of the loop that has not yet met name.
DropFieldKeeps(name, fields, i, stored) ==
    IF i > Len(fields) THEN stored
    ELSE IF name = fields[i] THEN stored
    ELSE DropFieldKeeps(name, fields, i + 1, TRUE)

RECURSIVE DropFieldReplay(_, _, _)
DropFieldReplay(idx, deleted, order) ==
    IF order = <<>> THEN [err |-> FALSE, idx |-> idx]
    ELSE LET measurement == order[1]
             oldFields == FieldsByString(idx, measurement)
         IN  IF oldFields.nil THEN [err |-> TRUE, idx |-> idx]
             ELSE LET kept == {n \in DOMAIN oldFields.fields :
                                  DropFieldKeeps(n, deleted[measurement], 1, FALSE)}
                      tmpFields == [n \in kept |-> oldFields.fields[n]]
                      created == CreateFieldsIfNotExists(IndexDelete(idx, measurement),
                                                         measurement)
                      copied == CreateAll(created[measurement], tmpFields, AnyOrder(kept))
                  IN  IF copied.err THEN [err |-> TRUE, idx |-> created]
                      ELSE DropFieldReplay([created EXCEPT ![measurement] = copied.fields],
                                           deleted, Tail(order))

DropFieldStartShard(acc) == EmptyMap

DropFieldEndShard(acc, ix, check) ==
    IF check \/ DOMAIN acc = {} \/ ix.nil THEN {EndShardResult(ix, 0, FALSE, acc)}
    ELSE {LET r == DropFieldReplay(ix.cur, acc, order)
              replayed == [ix EXCEPT !.cur = r.idx]
          IN  IF r.err THEN EndShardResult(replayed, 0, TRUE, acc)
              ELSE EndShardResult(Save(replayed), 1, FALSE, acc)
          : order \in Orderings(DOMAIN acc)}

(***************************************************************************)
(* rename-field                                                            *)
(***************************************************************************)
RenameFieldApply(r, acc, key, values) ==
    IF Filter(r.measurement, key.m) /\ Filter(r.field, key.f)
    THEN LET newField == RenameFn(r, key.f)
             rename == <<key.f, newField>>
             before == IF key.m \in DOMAIN acc THEN acc[key.m] ELSE <<>>
         IN  ApplyResult(MakeKey(key.m, key.t, newField), values, FALSE,
                         MapPut(acc, key.m, Append(before, rename)))
    ELSE ApplyResult(key, values, FALSE, acc)

RECURSIVE GetFieldKey(_, _)
\* getFieldKey: the new name of the first rename of key, key itself without one
GetFieldKey(renames, key) ==
    IF renames = <<>> THEN key
    ELSE IF renames[1][1] = key THEN renames[1][2]
    ELSE GetFieldKey(Tail(renames), key)

RECURSIVE RenamedFieldSet(_, _, _, _)
\* fieldSet as ForEachField fills it, visiting the fields in the order given
RenamedFieldSet(fieldSet, fields, renames, order) ==
    IF order = <<>> THEN fieldSet
    ELSE RenamedFieldSet(MapPut(fieldSet, GetFieldKey(renames, order[1]), fields[order[1]]),
                         fields, renames, Tail(order))

RECURSIVE RenameFieldReplay(_, _, _)
\* the loop over r.renamed in the order given: the set of [err, idx] it can end
\* with, one for each order in which ForEachField may visit the fields
RenameFieldReplay(idx, renamed, order) ==
    IF order = <<>> THEN {[err |-> FALSE, idx |-> idx]}
    ELSE LET m == order[1]
             oldFields == FieldsByString(idx, m)
         IN  IF oldFields.nil THEN {[err |-> TRUE, idx |-> idx]}
             ELSE UNION {
                 LET fieldSet == RenamedFieldSet(EmptyMap, oldFields.fields, renamed[m], forder)
                     created == CreateFieldsIfNotExists(IndexDelete(idx, m), m)
                     copied == CreateAll(created[m], fieldSet, AnyOrder(DOMAIN fieldSet))
                 IN  IF copied.err THEN {[err |-> TRUE, idx |-> created]}
                     ELSE RenameFieldReplay([created EXCEPT ![m] = copied.fields],
                                            renamed, Tail(order))
                 : forder \in Orderings(DOMAIN oldFields.fields)}

RenameFieldStartShard(acc) == EmptyMap

RenameFieldEndShard(acc, ix, check) ==
    IF DOMAIN acc = {} \/ ix.nil THEN {EndShardResult(ix, 0, FALSE, acc)}
    ELSE UNION {
        {LET replayed == [ix EXCEPT !.cur = r.idx]
         IN  IF r.err THEN EndShardResult(replayed, 0, TRUE, acc)
             ELSE EndShardResult(IF check THEN replayed ELSE Save(replayed),
                                 IF check THEN 0 ELSE 1, FALSE, acc)
         : r \in RenameFieldReplay(ix.cur, acc, order)}
        : order \in Orderings(DOMAIN acc)}

(***************************************************************************)
(* update-field-type                                                       *)
(***************************************************************************)
CastResult(value, ok, err) == [value |-> value, ok |-> ok, err |-> err]

\* the nil Value returned with an error
NilValue == [ts |-> 0, type |-> "nil", v |-> 0, s |-> ""]

CastError == CastResult(NilValue, FALSE, TRUE)

\* strconv.ParseFloat on the strings of the model: [err, v], v in halves
ParseFloat(s) ==
    CASE s = "1" -> [err |-> FALSE, v |-> 2]
      [] s = "1.5" -> [err |-> FALSE, v |-> 3]
      [] OTHER -> [err |-> TRUE, v |-> 0]

\* strconv.ParseInt(s, 10, 64) on the strings of the model
ParseInt(s) ==
    CASE s = "1" -> [err |-> FALSE, v |-> 1]
      [] OTHER -> [err |-> TRUE, v |-> 0]

\* strconv.ParseBool on the strings of the model
ParseBool(s) ==
    CASE s \in {"1", "true"} -> [err |-> FALSE, v |-> 1]
      [] OTHER -> [err |-> TRUE, v |-> 0]

\* strconv.FormatFloat(v, 'f', 6, 64) of a count of halves
FormatFloat(h) ==
    LET a == IF h >= 0 THEN h ELSE -h
    IN  (IF h < 0 THEN "-" ELSE "") \o ToString(a \div 2)
            \o (IF a % 2 = 1 THEN ".500000" ELSE ".000000")

\* strconv.FormatInt(v, 10) and strconv.FormatUint(v, 10)
FormatInt(v) == ToString(v)

\* strconv.FormatBool
FormatBool(v) == IF v = 1 THEN "true" ELSE "false"

\* the conversion int64(f) of a float of h halves: the truncation toward zero
\* when an int64 holds it; otherwise what the build yields, the least int64 on
\* amd64 and the nearest int64 on arm64
Int64OfFloat(h) ==
    LET trunc == IF h >= 0 THEN h \div 2 ELSE -((-h) \div 2)
    IN  IF trunc \in MinInt64..MaxInt64 THEN trunc
        ELSE IF build = "amd64" THEN MinInt64
        ELSE IF h > 0 THEN MaxInt64 ELSE MinInt64

castToFloat(value) ==
    CASE value.type = "float" -> CastResult(value, TRUE, FALSE)
      [] value.type \in {"integer", "unsigned"} ->
            CastResult(Value(value.ts, "float", 2 * value.v), FALSE, FALSE)
      [] value.type = "boolean" -> CastError
      [] value.type = "string" ->
            LET p == ParseFloat(value.s)
            IN  IF p.err THEN CastError
                ELSE CastResult(Value(value.ts, "float", p.v), FALSE, FALSE)

castToInteger(value) ==
    CASE value.type = "float" ->
            CastResult(Value(value.ts, "integer", Int64OfFloat(value.v)), FALSE, FALSE)
      [] value.type \in {"integer", "unsigned"} -> CastResult(value, TRUE, FALSE)
      [] value.type = "boolean" ->
            CastResult(Value(value.ts, "integer", value.v), FALSE, FALSE)
      [] value.type = "string" ->
            LET p == ParseInt(value.s)
            IN  IF p.err THEN CastError
                ELSE CastResult(Value(value.ts, "integer", p.v), FALSE, FALSE)

castToBoolean(value) ==
    CASE value.type = "float" ->
            CastResult(Value(value.ts, "boolean", IF value.v # 0 THEN 1 ELSE 0), FALSE, FALSE)
      [] value.type \in {"integer", "unsigned"} ->
            CastResult(Value(value.ts, "boolean", IF value.v = 1 THEN 1 ELSE 0), FALSE, FALSE)
      [] value.type = "boolean" -> CastResult(value, TRUE, FALSE)
      [] value.type = "string" ->
            LET p == ParseBool(value.s)
            IN  IF p.err THEN CastError
                ELSE CastResult(Value(value.ts, "boolean", p.v), FALSE, FALSE)

castToString(value) ==
    CASE value.type = "float" ->
            CastResult(NewStringValue(value.ts, FormatFloat(value.v)), FALSE, FALSE)
      [] value.type \in {"integer", "unsigned"} ->
            CastResult(NewStringValue(value.ts, FormatInt(value.v)), FALSE, FALSE)
      [] value.type = "boolean" ->
            CastResult(NewStringValue(value.ts, FormatBool(value.v)), FALSE, FALSE)
      [] value.type = "string" -> CastResult(value, TRUE, FALSE)

EnsureValueType(value, expectedType) ==
    CASE expectedType = "float" -> castToFloat(value)
      [] expectedType = "integer" -> castToInteger(value)
      [] expectedType = "boolean" -> castToBoolean(value)
      [] expectedType = "string" -> castToString(value)
      [] OTHER -> CastError

RECURSIVE UpdateFieldTypeLoop(_, _, _, _, _)
\* the loop over the values of a batch of type fromType; a pair is recorded at
\* the first value that is converted
UpdateFieldTypeLoop(r, acc, key, values, newValues) ==
    IF values = <<>> THEN ApplyResult(key, newValues, FALSE, acc)
    ELSE LET c == EnsureValueType(values[1], r.toType)
             updates == IF key.m \in DOMAIN acc THEN acc[key.m] ELSE <<>>
             recorded == IF c.ok \/ key.f \in Range(updates) THEN acc
                         ELSE MapPut(acc, key.m, Append(updates, key.f))
         IN  IF c.err THEN ApplyResult(NullKey, NoValues, TRUE, acc)
             ELSE UpdateFieldTypeLoop(r, recorded, key, Tail(values),
                                      Append(newValues, c.value))

\* Apply without the test of the type of the batch
UpdateFieldTypeApplyAnyType(r, acc, key, values) ==
    IF Filter(r.measurement, key.m) /\ Filter(r.field, key.f)
    THEN UpdateFieldTypeLoop(r, acc, key, values, <<>>)
    ELSE ApplyResult(key, values, FALSE, acc)

UpdateFieldTypeApply(r, acc, key, values) ==
    IF Filter(r.measurement, key.m) /\ Filter(r.field, key.f)
    THEN LET influxType == InfluxQLType(values)
         IN  IF influxType.err THEN ApplyResult(NullKey, NoValues, TRUE, acc)
             ELSE IF influxType.type # r.fromType \/ influxType.type = r.toType
             THEN ApplyResult(key, values, FALSE, acc)
             ELSE UpdateFieldTypeLoop(r, acc, key, values, <<>>)
    ELSE ApplyResult(key, values, FALSE, acc)

\* the inner loop of EndShard without the change of type
UpdateFieldsKeepType(fields, updates, toType) == [err |-> FALSE, fields |-> fields]

RECURSIVE UpdateFields(_, _, _)
\* the inner loop of EndShard over the fields recorded for one measurement
UpdateFields(fields, updates, toType) ==
    IF updates = <<>> THEN [err |-> FALSE, fields |-> fields]
    ELSE IF updates[1] \notin DOMAIN fields THEN [err |-> TRUE, fields |-> fields]
    ELSE UpdateFields([fields EXCEPT ![updates[1]] = toType], Tail(updates), toType)

RECURSIVE UpdateFieldTypeReplay(_, _, _, _)
UpdateFieldTypeReplay(idx, updates, order, toType) ==
    IF order = <<>> THEN [err |-> FALSE, idx |-> idx]
    ELSE LET m == order[1]
             fields == FieldsByString(idx, m)
         IN  IF fields.nil THEN [err |-> TRUE, idx |-> idx]
             ELSE LET u == UpdateFields(fields.fields, updates[m], toType)
                      updated == [idx EXCEPT ![m] = u.fields]
                  IN  IF u.err THEN [err |-> TRUE, idx |-> updated]
                      ELSE UpdateFieldTypeReplay(updated, updates, Tail(order), toType)

UpdateFieldTypeStartShard(acc) == EmptyMap

UpdateFieldTypeEndShard(r, acc, ix, check) ==
    IF DOMAIN acc = {} THEN {EndShardResult(ix, 0, FALSE, acc)}
    ELSE IF ix.nil THEN {EndShardResult(ix, 0, TRUE, acc)}
    ELSE {LET u == UpdateFieldTypeReplay(ix.cur, acc, order, r.toType)
              replayed == [ix EXCEPT !.cur = u.idx]
          IN  IF u.err THEN EndShardResult(replayed, 0, TRUE, acc)
              ELSE EndShardResult(IF check THEN replayed ELSE Save(replayed),
                                  IF check THEN 0 ELSE 1, FALSE, acc)
          : order \in Orderings(DOMAIN acc)}

(***************************************************************************)
(* drop-serie.  The accumulator holds the counters of the rule; a counter  *)
(* it does not hold is 0.                                                  *)
(***************************************************************************)
Counter(acc, name) == IF name \in DOMAIN acc THEN acc[name] ELSE 0

DropSerieApply(r, acc, key, values) ==
    LET counted == MapPut(acc, "total", Counter(acc, "total") + 1)
    IN  IF RawSerieFilterFilter(r.dropFilter, key)
        THEN ApplyResult(NullKey, NoValues, FALSE,
                         MapPut(counted, "count", Counter(acc, "count") + 1))
        ELSE ApplyResult(key, values, FALSE, counted)

DropSerieStartShard(acc) == MapPut(MapPut(acc, "shardCount", 0), "shardTotal", 0)

\* EndShard divides by r.shardTotal for its log line: the division of an
\* integer by zero panics, which is the error here
DropSerieEndShard(acc, ix, check) ==
    {EndShardResult(ix, 0, Counter(acc, "shardTotal") = 0, acc)}

\* StartTSM: the counters of the file are reset
DropSerieStartTSM(acc) == MapPut(MapPut(acc, "count", 0), "total", 0)

\* EndTSM: the counters of the file are added to those of the shard, then the
\* log line divides by r.total; fault is the panic of a division by zero
DropSerieEndTSM(acc) ==
    [fault |-> Counter(acc, "total") = 0,
     acc |-> MapPut(MapPut(acc, "shardCount",
                           Counter(acc, "shardCount") + Counter(acc, "count")),
                    "shardTotal", Counter(acc, "shardTotal") + Counter(acc, "total"))]

(***************************************************************************)
(* old-serie (read-only)                                                   *)
(***************************************************************************)
\* OldSerieRule.makeKey: the series key unless byField
OldSerieMakeKey(r, key) == IF r.byField THEN key ELSE MakeKey(key.m, key.t, "")

\* Apply keeping the timestamp of the last batch of a series
OldSerieApplyLast(r, acc, key, values) ==
    IF Len(values) > 0
    THEN ApplyResult(NullKey, NoValues, FALSE,
                     MapPut(acc, OldSerieMakeKey(r, key), values[Len(values)].ts))
    ELSE ApplyResult(NullKey, NoValues, FALSE, acc)

OldSerieApply(r, acc, key, values) ==
    IF Len(values) > 0
    THEN LET maxTs == values[Len(values)].ts
             s == OldSerieMakeKey(r, key)
         IN  ApplyResult(NullKey, NoValues, FALSE,
                         IF s \in DOMAIN acc /\ ~(maxTs > acc[s]) THEN acc
                         ELSE MapPut(acc, s, maxTs))
    ELSE ApplyResult(NullKey, NoValues, FALSE, acc)

OldSerieStartShard(acc) == acc

OldSerieEndShard(acc, ix, check) == {EndShardResult(ix, 0, FALSE, acc)}

RECURSIVE SortStrings(_)
\* sort.Strings on the keys of a map: the keys in ascending bytewise order
SortStrings(keys) ==
    IF keys = {} THEN <<>>
    ELSE LET least == CHOOSE k \in keys : \A x \in keys : x = k \/ KeyLess(k, x)
         IN  <<least>> \o SortStrings(keys \ {least})

\* End: the lines written to r.out, one for each key formatted
OldSerieEnd(r, acc) ==
    SelectSeq(SortStrings(DOMAIN acc), LAMBDA key : acc[key] <= r.unixNano)

(***************************************************************************)
(* update-tag-value.  The tags of a key are the tag host alone.            *)
(***************************************************************************)
\* the measurement filter is given the bytes of the whole key
UpdateTagValueApply(r, acc, key, values) ==
    IF Filter(r.measurement, SeriesFieldKeyBytes(key))
    THEN LET newTagValue == IF Filter(r.key, "host") /\ Filter(r.value, key.t)
                            THEN RenameFn(r, key.t)
                            ELSE key.t
         IN  ApplyResult(MakeKey(key.m, newTagValue, key.f), values, FALSE, acc)
    ELSE ApplyResult(key, values, FALSE, acc)

UpdateTagValueFilterKey(r, key) == FALSE

(***************************************************************************)
(* show-field-key-multiple-types (read-only).  The accumulator holds the   *)
(* number of the shard at hand and r.measurements: measurement -> field -> *)
(* the list of [shard, key, fieldType].                                    *)
(***************************************************************************)
\* r.measurements, empty before the first shard
NotedMeasurements(acc) == IF DOMAIN acc = {} THEN EmptyMap ELSE acc.measurements

\* the number of the shard at hand
ShardID(acc) == IF DOMAIN acc = {} THEN 0 ELSE acc.shard

ShowFieldKeyMultipleTypesFilterKey(r, key) ==
    MeasurementFilter(r.measurement, key) /\ Filter(r.field, key.f)

ShowFieldKeyMultipleTypesApply(r, acc, key, values) ==
    IF /\ MeasurementFilter(r.measurement, key)
       /\ Filter(r.field, key.f)
       /\ key.m \notin DOMAIN NotedMeasurements(acc)
    THEN ApplyResult(NullKey, NoValues, FALSE,
                     [shard |-> ShardID(acc),
                      measurements |-> MapPut(NotedMeasurements(acc), key.m, EmptyMap)])
    ELSE ApplyResult(NullKey, NoValues, FALSE, acc)

\* StartShard keeps r.measurements: r.shard is set, the shards being numbered
\* from 1
ShowFieldKeyMultipleTypesStartShard(acc) ==
    [shard |-> ShardID(acc) + 1, measurements |-> NotedMeasurements(acc)]

\* the type recorded whether the list holds it or not
RecordTypeAlways(fields, shard, fieldKey, fieldType) ==
    MapPut(fields, fieldKey,
           Append(IF fieldKey \in DOMAIN fields THEN fields[fieldKey] ELSE <<>>,
                  [shard |-> shard, key |-> fieldKey, fieldType |-> fieldType]))

\* one turn of the loop over the field set of the index in EndShard: the type
\* is appended to the list of the field unless the list holds it
RecordType(fields, shard, fieldKey, fieldType) ==
    IF fieldKey \in DOMAIN fields
    THEN IF \E i \in DOMAIN fields[fieldKey] : fields[fieldKey][i].fieldType = fieldType
         THEN fields
         ELSE [fields EXCEPT ![fieldKey] =
                  Append(@, [shard |-> shard, key |-> fieldKey, fieldType |-> fieldType])]
    ELSE MapPut(fields, fieldKey,
                <<[shard |-> shard, key |-> fieldKey, fieldType |-> fieldType]>>)

RECURSIVE RecordTypes(_, _, _, _)
\* the loop over the field set of one measurement, in the order given
RecordTypes(fields, shard, fieldsSet, order) ==
    IF order = <<>> THEN fields
    ELSE RecordTypes(RecordType(fields, shard, order[1], fieldsSet[order[1]]),
                     shard, fieldsSet, Tail(order))

ShowFieldKeyMultipleTypesEndShard(acc, ix, check) ==
    IF ix.nil THEN {EndShardResult(ix, 0, TRUE, acc)}
    ELSE {EndShardResult(ix, 0, FALSE,
            [shard |-> ShardID(acc),
             measurements |->
                [m \in DOMAIN NotedMeasurements(acc) |->
                    IF FieldsByString(ix.cur, m).nil THEN NotedMeasurements(acc)[m]
                    ELSE RecordTypes(NotedMeasurements(acc)[m], ShardID(acc), ix.cur[m],
                                     AnyOrder(DOMAIN ix.cur[m]))]])}

\* the fields of the measurement m that End logs a line for
MultipleTypes(acc, m) ==
    {f \in DOMAIN NotedMeasurements(acc)[m] : Len(NotedMeasurements(acc)[m][f]) > 1}

\* End: one line for each field with more than one entry, the maps being
\* ranged over in any order
ShowFieldKeyMultipleTypesEnd(acc) ==
    Orderings(UNION {{[measurement |-> m, fieldKey |-> f,
                       types |-> NotedMeasurements(acc)[m][f]]
                      : f \in MultipleTypes(acc, m)}
                     : m \in DOMAIN NotedMeasurements(acc)})

(***************************************************************************)
(* The Rule interface, dispatched on the kind of the rule.                 *)
(***************************************************************************)
Apply(r, acc, key, values) ==
    CASE r.kind = "drop-measurement" -> DropMeasurementApply(r, acc, key, values)
      [] r.kind = "rename-measurement" -> RenameMeasurementApply(r, acc, key, values)
      [] r.kind = "drop-field" -> DropFieldApply(r, acc, key, values)
      [] r.kind = "rename-field" -> RenameFieldApply(r, acc, key, values)
      [] r.kind = "update-field-type" -> UpdateFieldTypeApply(r, acc, key, values)
      [] r.kind = "old-serie" -> OldSerieApply(r, acc, key, values)
      [] r.kind = "declining" -> ApplyResult(key, values, FALSE, acc)
      [] r.kind = "drop-serie" -> DropSerieApply(r, acc, key, values)
      [] r.kind = "show-field-key-multiple-types" ->
            ShowFieldKeyMultipleTypesApply(r, acc, key, values)
      [] r.kind = "update-tag-value" -> UpdateTagValueApply(r, acc, key, values)

\* what StartShard returns: true in every rule of the package
StartShardReturns(r) == r.kind # "declining"

\* the accumulator after StartShard
StartShard(r, acc) ==
    CASE r.kind = "drop-measurement" -> DropMeasurementStartShard(acc)
      [] r.kind = "rename-measurement" -> RenameMeasurementStartShard(acc)
      [] r.kind = "drop-field" -> DropFieldStartShard(acc)
      [] r.kind = "rename-field" -> RenameFieldStartShard(acc)
      [] r.kind = "update-field-type" -> UpdateFieldTypeStartShard(acc)
      [] r.kind = "old-serie" -> OldSerieStartShard(acc)
      [] r.kind = "declining" -> acc
      [] r.kind = "drop-serie" -> DropSerieStartShard(acc)
      [] r.kind = "show-field-key-multiple-types" -> ShowFieldKeyMultipleTypesStartShard(acc)
      [] r.kind = "update-tag-value" -> acc

\* the results EndShard can have
EndShard(r, acc, ix, check) ==
    CASE r.kind = "drop-measurement" -> DropMeasurementEndShard(acc, ix, check)
      [] r.kind = "rename-measurement" -> RenameMeasurementEndShard(acc, ix, check)
      [] r.kind = "drop-field" -> DropFieldEndShard(acc, ix, check)
      [] r.kind = "rename-field" -> RenameFieldEndShard(acc, ix, check)
      [] r.kind = "update-field-type" -> UpdateFieldTypeEndShard(r, acc, ix, check)
      [] r.kind = "old-serie" -> OldSerieEndShard(acc, ix, check)
      [] r.kind = "declining" -> {EndShardResult(ix, 0, FALSE, acc)}
      [] r.kind = "drop-serie" -> DropSerieEndShard(acc, ix, check)
      [] r.kind = "show-field-key-multiple-types" ->
            ShowFieldKeyMultipleTypesEndShard(acc, ix, check)
      [] r.kind = "update-tag-value" -> {EndShardResult(ix, 0, FALSE, acc)}

\* the outputs Rule.End can have: the lines written, in their order
RuleEnd(r, acc) ==
    CASE r.kind = "old-serie" -> {OldSerieEnd(r, acc)}
      [] r.kind = "show-field-key-multiple-types" -> ShowFieldKeyMultipleTypesEnd(acc)
      [] OTHER -> {<<>>}

\* StartTSM and StartWAL return true in every rule
StartTSM(r) == TRUE

StartWAL(r) == TRUE

\* DropFieldRule.FilterKey
DropFieldFilterKey(r, key) == MeasurementFilter(r.measurement, key)

\* FilterKey of the rules whose implementation is not part of the sources: the
\* pre-check of the measurement the rule's Apply starts with; old-serie has no
\* filter and takes every key
PreCheckFilterKey(r, key) ==
    IF r.kind = "old-serie" THEN TRUE ELSE Filter(r.measurement, key.m)

FilterKey(r, key) ==
    CASE r.kind = "drop-field" -> DropFieldFilterKey(r, key)
      [] r.kind = "show-field-key-multiple-types" -> ShowFieldKeyMultipleTypesFilterKey(r, key)
      [] r.kind = "update-tag-value" -> UpdateTagValueFilterKey(r, key)
      [] OTHER -> PreCheckFilterKey(r, key)

(***************************************************************************)
(* The rewriters (storage/rewriter.go).  The cache maps a key to the       *)
(* values written for it; a segment file is such a map too.  Sizes count   *)
(* values.                                                                 *)
(***************************************************************************)
RECURSIVE SumLen(_, _)
SumLen(m, keys) ==
    IF keys = {} THEN 0
    ELSE LET k == CHOOSE x \in keys : TRUE IN Len(m[k]) + SumLen(m, keys \ {k})

\* tsm1.Cache.Size
CacheSize(cache) == SumLen(cache, DOMAIN cache)

RECURSIVE SortedByTs(_, _)
\* the values of vs, one for each timestamp of tss, in ascending order; of two
\* values with the same timestamp the one written last stays
SortedByTs(vs, tss) ==
    IF tss = {} THEN <<>>
    ELSE LET t == CHOOSE x \in tss : \A y \in tss : x <= y
             last == CHOOSE i \in DOMAIN vs :
                        vs[i].ts = t /\ \A j \in DOMAIN vs : vs[j].ts = t => j <= i
         IN  <<vs[last]>> \o SortedByTs(vs, tss \ {t})

\* Deduplicate on the values of one key
Deduplicate(vs) == SortedByTs(vs, {vs[i].ts : i \in DOMAIN vs})

\* the values of key after values are written behind the ones the map holds
Merged(m, key, values) ==
    MapPut(m, key, IF key \in DOMAIN m THEN m[key] \o values ELSE values)

RECURSIVE MergeFiles(_, _)
\* full compaction: every key of every file, later files win on equal timestamps
MergeFiles(acc, tsmFiles) ==
    IF tsmFiles = <<>> THEN [k \in DOMAIN acc |-> Deduplicate(acc[k])]
    ELSE LET f == tsmFiles[1]
         IN  MergeFiles([k \in (DOMAIN acc) \cup (DOMAIN f) |->
                            IF k \in DOMAIN acc
                            THEN (IF k \in DOMAIN f THEN acc[k] \o f[k] ELSE acc[k])
                            ELSE f[k]],
                        Tail(tsmFiles))

NoopTSMRewriter == [kind |-> "noop", cache |-> EmptyMap, tsmFiles |-> <<>>]

NewCachedTSMRewriter == [kind |-> "cached", cache |-> EmptyMap, tsmFiles |-> <<>>]

\* WriteSnapshot; ok is whether the compactor and the file store succeed
WriteSnapshot(w, ok) ==
    IF w.kind = "noop" \/ CacheSize(w.cache) = 0 THEN [err |-> FALSE, w |-> w]
    ELSE IF ~ok THEN [err |-> TRUE, w |-> w]
    ELSE [err |-> FALSE,
          w |-> [w EXCEPT !.cache = EmptyMap,
                          !.tsmFiles = Append(w.tsmFiles,
                                [k \in DOMAIN w.cache |-> Deduplicate(w.cache[k])])]]

\* Write without the snapshot
WriteUnflushed(w, key, values, maxSize, flushSizeThreshold, ok) ==
    IF w.kind = "noop" THEN [err |-> FALSE, w |-> w]
    ELSE IF maxSize > 0 /\ CacheSize(w.cache) + Len(values) > maxSize
    THEN [err |-> TRUE, w |-> w]
    ELSE [err |-> FALSE, w |-> [w EXCEPT !.cache = Merged(w.cache, key, values)]]

\* Write; maxSize 0 is no limit of the cache
Write(w, key, values, maxSize, flushSizeThreshold, ok) ==
    IF w.kind = "noop" THEN [err |-> FALSE, w |-> w]
    ELSE IF maxSize > 0 /\ CacheSize(w.cache) + Len(values) > maxSize
    THEN [err |-> TRUE, w |-> w]
    ELSE LET written == [w EXCEPT !.cache = Merged(w.cache, key, values)]
         IN  IF CacheSize(written.cache) > flushSizeThreshold
             THEN WriteSnapshot(written, ok)
             ELSE [err |-> FALSE, w |-> written]

\* the least key of a non-empty segment
FirstKey(f) == CHOOSE k \in DOMAIN f : \A x \in DOMAIN f : x = k \/ KeyLess(k, x)

\* CompactFull; outcome is what the compactor does: it fails, or it yields one
\* file or, the output being split, more than one.  No file is nil.
CompactFull(w, outcome) ==
    IF w.kind = "noop" \/ Len(w.tsmFiles) = 0 THEN [err |-> FALSE, files |-> <<>>]
    ELSE IF outcome = "fail" THEN [err |-> TRUE, files |-> <<>>]
    ELSE LET all == MergeFiles(EmptyMap, w.tsmFiles)
         IN  IF outcome = "many" /\ Cardinality(DOMAIN all) > 1
             THEN [err |-> FALSE,
                   files |-> <<[k \in {FirstKey(all)} |-> all[k]],
                               [k \in (DOMAIN all) \ {FirstKey(all)} |-> all[k]]>>]
             ELSE [err |-> FALSE, files |-> <<all>>]

(***************************************************************************)
(* The shards the command is run on: the keys of the segments, the value   *)
(* batch stored for each key, the schema index, the rules of the           *)
(* configuration.                                                          *)
(***************************************************************************)
MaxShards == 2
MaxFiles == 1

KeyUniverse ==
    {MakeKey("cpu", "h1", "idle"), MakeKey("cpu", "h1", "up"), MakeKey("mem", "h1", "idle")}

\* the batch a segment stores for key
DataOf(key) ==
    IF key.f = "up" THEN <<Value(1, "boolean", 1)>>
    ELSE <<Value(1, "float", 3), Value(2, "float", 4)>>

\* the fields index of a shard as LoadShards opens it: the schema of the shard,
\* or nothing when the shard has no fields.idx
FullSchema ==
    [m \in {"cpu", "mem"} |->
        IF m = "cpu" THEN [f \in {"idle", "up"} |-> IF f = "up" THEN "boolean" ELSE "float"]
        ELSE [f \in {"idle"} |-> "float"]]

\* the schema of a shard holding the up of cpu and the idle of mem only
PartSchema ==
    [m \in {"cpu", "mem"} |->
        IF m = "cpu" THEN [f \in {"up"} |-> "boolean"] ELSE [f \in {"idle"} |-> "float"]]

IndexChoices == {FullSchema, PartSchema, EmptyMap}

RuleUniverse ==
    {NewDropMeasurementWithFilter(IncludeFilter({"cpu"})),
     NewRenameMeasurementWithFilter(IncludeFilter({"cpu", "mem"}), "linux"),
     NewDropField(IncludeFilter({"cpu"}), IncludeFilter({"idle", "up"}), AlwaysTrueFilter),
     NewRenameField(IncludeFilter({"cpu"}), IncludeFilter({"idle"}), "busy"),
     NewUpdateFieldType(IncludeFilter({"cpu"}), IncludeFilter({"idle"}), "float", "integer"),
     NewOldSerieRule(1, FALSE)}

\* the sizes given on the command line: [maxCacheSize, cacheSnapshotSize]
CacheChoices == {<<0, 8>>, <<0, 1>>, <<2, 8>>}

\* the global filter: the default, or one set with GlobalFilter
GlobalFilterChoices == {PassFilter, IncludeFilter({"mem"})}

\* cmd.filter.Filter(key)
GlobalFilterKey(f, key) == Filter(f, key.m)

\* the rule lists of the configurations: no rule twice
RuleLists ==
    {rs \in SeqsUpTo(RuleUniverse, MaxRules) :
        \A i, j \in DOMAIN rs : i # j => rs[i] # rs[j]}

\* the configurations of the command: any rule list with the default sizes and
\* filter, and the short lists with other sizes, with another global filter or
\* behind a rule given to NewCommandWithRules
Commands ==
    {[check |-> c, rules |-> rs, given |-> <<>>, filter |-> PassFilter,
      maxCacheSize |-> 0, cacheSnapshotSize |-> 8] :
        c \in BOOLEAN, rs \in RuleLists}
    \cup
    {[check |-> FALSE, rules |-> rs, given |-> <<>>, filter |-> PassFilter,
      maxCacheSize |-> cs[1], cacheSnapshotSize |-> cs[2]] :
        rs \in {x \in RuleLists : Len(x) < MaxRules}, cs \in CacheChoices}
    \cup
    {[check |-> FALSE, rules |-> rs, given |-> <<>>, filter |-> f,
      maxCacheSize |-> 0, cacheSnapshotSize |-> 8] :
        rs \in {x \in RuleLists : Len(x) < MaxRules}, f \in GlobalFilterChoices}
    \cup
    {[check |-> FALSE, rules |-> rs, given |-> <<NewDecliningRule>>, filter |-> PassFilter,
      maxCacheSize |-> 0, cacheSnapshotSize |-> 8] :
        rs \in {x \in RuleLists : Len(x) < MaxRules}}

(***************************************************************************)
(* The state of a run of the command.                                      *)
(***************************************************************************)
VARIABLES
    config,     \* the rule entries of the configuration file, in its order
    cmd,        \* the command: check, rules, filter, cache sizes
    rstate,     \* the accumulator of each rule of cmd.rules
    phase,      \* where each rule is between Start and End
    pc,         \* the position of process
    err,        \* the error process returns, "" for none
    si,         \* the number of shards entered
    fi,         \* the number of TSM files of the shard entered
    wi,         \* the number of WAL files of the shard entered
    index,      \* info.FieldsIndex: [nil, cur, disk, orig]
    tsm,        \* the TSM file at hand: [readable, orig, replaced, disk]
    ki,         \* the position of the key loop, from 1
    w,          \* the rewriter of the TSM file at hand
    files,      \* what CompactFull returned
    chains,     \* for each key that reached the rules: what was applied to it
    writes,     \* the calls of w.Write for the TSM file at hand
    wal,        \* the WAL file at hand: [exists, orig, replaced, out, writer, done]
    shardLog,   \* the callbacks made since the shard was entered
    saves,      \* the calls of FieldsIndex.Save since the shard was entered
    emitted,    \* the measurement, field and type of what was written in the shard
    unit        \* a rule driven alone, as the tests of the package drive it

vars ==
    <<config, cmd, rstate, phase, pc, err, si, fi, wi, index, tsm, ki, w, files, chains,
      writes, wal, shardLog, saves, emitted, build, unit>>

\* orig is what the reader has yielded of the file, disk what is at the path of
\* the file once it is replaced
NoTSM == [readable |-> FALSE, orig |-> EmptyMap, replaced |-> FALSE, disk |-> EmptyMap]

\* orig is the entries read, out the entries written to the output file, which
\* is at the path of the file once it is replaced; done is set when the loop
\* is left
NoWAL ==
    [exists |-> FALSE, orig |-> <<>>, replaced |-> FALSE, out |-> <<>>,
     writer |-> FALSE, done |-> FALSE, chains |-> <<>>, toDelete |-> {},
     values |-> EmptyMap]

\* no rule is driven alone
NoUnit == [phase |-> "none"]

RuleIds == 1..Len(cmd.rules)

\* the callback name made on every rule of cmd.rules, in their order
Callbacks(name) == [i \in RuleIds |-> <<i, name, TRUE>>]

\* StartShard on every rule of cmd.rules, with what each returns
StartShardCallbacks == [i \in RuleIds |-> <<i, "start_shard", StartShardReturns(cmd.rules[i])>>]

\* EndShard on every rule of cmd.rules, with whether each returned no error
EndShardCallbacks(failed) == [i \in RuleIds |-> <<i, "end_shard", i \notin failed>>]

\* the command line is parsed, the configuration file not yet read
Init ==
    /\ \E c \in Commands :
          /\ config = c.rules
          /\ cmd = [c EXCEPT !.rules = c.given]
          /\ rstate = [i \in 1..Len(c.given) |-> EmptyMap]
          /\ phase = [i \in 1..Len(c.given) |-> "new"]
    /\ pc = "load"
    /\ err = ""
    /\ si = 0
    /\ fi = 0
    /\ wi = 0
    /\ index = ShardIndex(EmptyMap, EmptyMap)
    /\ tsm = NoTSM
    /\ ki = 0
    /\ w = NoopTSMRewriter
    /\ files = <<>>
    /\ chains = <<>>
    /\ writes = <<>>
    /\ wal = NoWAL
    /\ shardLog = <<>>
    /\ saves = 0
    /\ emitted = {}
    /\ build \in Builds
    /\ unit = NoUnit

(***************************************************************************)
(* Command: the selection of rules and the two loops over the rules of a   *)
(* key.  Rules are named by their position in cmd.rules.                   *)
(***************************************************************************)
\* filterRules with StartTSM or StartWAL
filterRules(rs, started(_)) == SelectSeq(rs, LAMBDA i : started(cmd.rules[i]))

filterFlaggedRules(rs, flag) == SelectSeq(rs, LAMBDA i : flag \in Flags(cmd.rules[i]))

filterRulesMatchingKey(rs, key) == SelectSeq(rs, LAMBDA i : FilterKey(cmd.rules[i], key))

RECURSIVE ApplyReadRules(_, _, _, _, _)
\* the rule rs[1] applied with the result r, and the rules after it
ApplyReadRule(rs, st, key, values, applied, r) ==
    IF r.err
    THEN [err |-> TRUE, st |-> [st EXCEPT ![rs[1]] = r.acc],
          applied |-> Append(applied, [rule |-> rs[1], key |-> r.key, values |-> r.values])]
    ELSE ApplyReadRules(Tail(rs), [st EXCEPT ![rs[1]] = r.acc], key, values,
                        Append(applied, [rule |-> rs[1], key |-> r.key, values |-> r.values]))

\* the loop over the read rules: every result but the error is dropped
ApplyReadRules(rs, st, key, values, applied) ==
    IF rs = <<>> THEN [err |-> FALSE, st |-> st, applied |-> applied]
    ELSE ApplyReadRule(rs, st, key, values, applied,
                       Apply(cmd.rules[rs[1]], st[rs[1]], key, values))

RECURSIVE ApplyWriteRules(_, _, _, _, _, _)
\* the rule rs[1] applied with the result r, and the rules after it
ApplyWriteRule(rs, st, applied, stopOnNil, r) ==
    IF r.err \/ (stopOnNil /\ r.key = NullKey)
    THEN [err |-> r.err, key |-> r.key, values |-> r.values,
          st |-> [st EXCEPT ![rs[1]] = r.acc],
          applied |-> Append(applied, [rule |-> rs[1], key |-> r.key, values |-> r.values])]
    ELSE ApplyWriteRules(Tail(rs), [st EXCEPT ![rs[1]] = r.acc], r.key, r.values,
                         Append(applied, [rule |-> rs[1], key |-> r.key, values |-> r.values]),
                         stopOnNil)

\* the loop over the write rules, each given what the one before returned;
\* stopOnNil is whether the loop breaks on a nil key
ApplyWriteRules(rs, st, key, values, applied, stopOnNil) ==
    IF rs = <<>>
    THEN [err |-> FALSE, key |-> key, values |-> values, st |-> st, applied |-> applied]
    ELSE ApplyWriteRule(rs, st, applied, stopOnNil,
                        Apply(cmd.rules[rs[1]], st[rs[1]], key, values))

\* r.KeyAt: the keys the reader can yield next, each above the ones before
KeyAt == {key \in KeyUniverse : \A k \in DOMAIN tsm.orig : KeyLess(k, key)}

\* the loop over the write rules without its break
NoBreakOnNil == FALSE

\* processTSMFile: the loop over the write rules breaks on a nil key
BreakOnNil == TRUE

\* the key written whether it is nil or not
SurvivesAlways(key) == TRUE

\* processTSMFile: the key is written if it is not nil
Survives(key) == key # NullKey

\* createRewriter without the test of check mode
createRewriterUnchecked ==
    LET readRules == filterFlaggedRules([i \in RuleIds |-> i], TSMReadOnly)
        readonly == Len(readRules) = Len(cmd.rules)
    IN  IF readonly THEN NoopTSMRewriter ELSE NewCachedTSMRewriter

\* createRewriter: the no-op rewriter in check mode and when every rule of
\* cmd.rules only reads TSM files
createRewriter ==
    LET readRules == filterFlaggedRules([i \in RuleIds |-> i], TSMReadOnly)
        readonly == Len(readRules) = Len(cmd.rules)
    IN  IF cmd.check \/ readonly THEN NoopTSMRewriter ELSE NewCachedTSMRewriter

\* process returns the error kind
Fail(kind) == pc' = "failed" /\ err' = kind

(***************************************************************************)
(* LoadConfig (rules/config.go): the file is parsed into a table that maps *)
(* each rule name to the entries of that name, and the table is a Go map.  *)
(***************************************************************************)
\* the keys of the table of rules: the names of the entries
RuleNames(file) == {file[i].kind : i \in DOMAIN file}

\* the value of the table of rules for name: its entries in the order of the
\* file
RuleSubTable(file, name) == SelectSeq(file, LAMBDA r : r.kind = name)

RECURSIVE LoadRules(_, _)
\* the rules appended while the table is ranged over in the order names
LoadRules(file, names) ==
    IF names = <<>> THEN <<>>
    ELSE RuleSubTable(file, names[1]) \o LoadRules(file, Tail(names))

\* Run: LoadConfig, the rules appended to cmd.rules; the range over the table
\* takes the names in any order.  The parsed file is gone afterwards.
LoadConfig ==
    /\ pc = "load"
    /\ \E names \in Orderings(RuleNames(config)) :
          /\ cmd' = [cmd EXCEPT !.rules = cmd.rules \o LoadRules(config, names)]
          /\ rstate' = [i \in 1..(Len(cmd.rules) + Len(config)) |-> EmptyMap]
          /\ phase' = [i \in 1..(Len(cmd.rules) + Len(config)) |-> "new"]
    /\ config' = <<>>
    /\ pc' = "start"
    /\ UNCHANGED <<build, unit, err, si, fi, wi, index, tsm, ki, w, files, chains, writes, wal,
                   shardLog, saves, emitted>>

(***************************************************************************)
(* process and processShard, up to the files of the shard                  *)
(***************************************************************************)
\* process: CheckMode and Start on every rule
Start ==
    /\ pc = "start"
    /\ phase' = [i \in RuleIds |-> "started"]
    /\ pc' = "shards"
    /\ UNCHANGED <<build, unit, config, cmd, rstate, err, si, fi, wi, index, tsm, ki, w, files, chains,
                   writes, wal, shardLog, saves, emitted>>

\* processShard: StartShard on every rule, what the rules return is dropped
EnterShard ==
    /\ pc = "shards"
    /\ si < MaxShards
    /\ \E schema \in IndexChoices : index' = ShardIndex(schema, schema)
    /\ si' = si + 1
    /\ rstate' = [i \in RuleIds |-> StartShard(cmd.rules[i], rstate[i])]
    /\ shardLog' = StartShardCallbacks
    /\ saves' = 0
    /\ emitted' = {}
    /\ fi' = 0
    /\ wi' = 0
    /\ tsm' = NoTSM
    /\ wal' = NoWAL
    /\ chains' = <<>>
    /\ writes' = <<>>
    /\ files' = <<>>
    /\ w' = NoopTSMRewriter
    /\ ki' = 0
    /\ pc' = "tsm"
    /\ UNCHANGED <<build, unit, config, cmd, phase, err>>

(***************************************************************************)
(* processTSMFile                                                          *)
(***************************************************************************)
\* up to the key loop: StartTSM on every rule, the reader, the rewriter
OpenTSM ==
    /\ pc = "tsm"
    /\ fi + wi < MaxFiles
    /\ fi' = fi + 1
    /\ shardLog' = shardLog \o Callbacks("start_tsm")
    /\ chains' = <<>>
    /\ writes' = <<>>
    /\ files' = <<>>
    /\ ki' = 1
    /\ \E readable \in BOOLEAN :
          LET rs == filterRules([i \in RuleIds |-> i], StartTSM)
          IN  /\ tsm' = [NoTSM EXCEPT !.readable = readable]
              /\ IF Len(rs) = 0 \/ ~readable
                 THEN pc' = "tsm" /\ w' = NoopTSMRewriter
                 ELSE pc' = "keys" /\ w' = createRewriter
    /\ UNCHANGED <<build, unit, config, cmd, rstate, phase, err, si, wi, index, wal, saves, emitted>>

\* the rules of the TSM file with the flag that take the key
RulesForKey(flag, key) ==
    filterRulesMatchingKey(
        filterFlaggedRules(filterRules([i \in RuleIds |-> i], StartTSM), flag), key)

\* the record of a key that reached the rules: its place in the file, what the
\* read rules and the write rules returned
Chain(key, reads, applied, failed) ==
    [src |-> ki, key |-> key, values |-> DataOf(key), reads |-> reads,
     applied |-> applied, err |-> failed]

\* one turn of the key loop on the next key of the file; readOk is whether
\* ReadAll succeeds, snapOk whether a snapshot taken by Write does
ProcessKey ==
    /\ pc = "keys"
    /\ ki <= MaxKeys
    /\ ki' = ki + 1
    /\ \E key \in KeyAt, readOk \in BOOLEAN,
          snapOk \in IF w.kind = "cached" THEN BOOLEAN ELSE {TRUE} :
          /\ tsm' = [tsm EXCEPT !.orig = MapPut(tsm.orig, key, DataOf(key))]
          /\ IF GlobalFilterKey(cmd.filter, key)
                   \/ (Len(RulesForKey(TSMReadOnly, key)) = 0
                          /\ Len(RulesForKey(TSMWriteOnly, key)) = 0)
                   \/ ~readOk
             THEN UNCHANGED <<rstate, pc, err, w, chains, writes, emitted>>
             ELSE \E rd \in {ApplyReadRules(RulesForKey(TSMReadOnly, key), rstate, key,
                                            DataOf(key), <<>>)} :
                  IF rd.err
                  THEN /\ Fail("apply")
                       /\ rstate' = rd.st
                       /\ chains' = Append(chains, Chain(key, rd.applied, <<>>, TRUE))
                       /\ UNCHANGED <<w, writes, emitted>>
                  ELSE \E wr \in {ApplyWriteRules(RulesForKey(TSMWriteOnly, key), rd.st,
                                                  key, DataOf(key), <<>>, BreakOnNil)} :
                       /\ rstate' = wr.st
                       /\ chains' = Append(chains, Chain(key, rd.applied, wr.applied, wr.err))
                       /\ IF wr.err
                          THEN Fail("apply") /\ UNCHANGED <<w, writes, emitted>>
                          ELSE IF ~Survives(wr.key)
                          THEN UNCHANGED <<pc, err, w, writes, emitted>>
                          ELSE \E wrote \in {Write(w, wr.key, wr.values, cmd.maxCacheSize,
                                                   cmd.cacheSnapshotSize, snapOk)} :
                               /\ writes' = Append(writes, [src |-> ki, key |-> wr.key,
                                                            values |-> wr.values])
                               /\ emitted' = emitted \cup
                                     {<<wr.key.m, wr.key.f, InfluxQLType(wr.values).type>>}
                               /\ w' = wrote.w
                               /\ IF wrote.err THEN Fail("write") ELSE UNCHANGED <<pc, err>>
    /\ UNCHANGED <<build, unit, config, cmd, phase, si, fi, wi, index, files, wal, shardLog, saves>>

\* after the key loop, the file having no more keys: WriteSnapshot and
\* CompactFull
CompactTSM ==
    /\ pc = "keys"
    /\ ki > 1
    /\ \E snapOk \in IF w.kind = "cached" THEN BOOLEAN ELSE {TRUE},
          outcome \in IF w.kind = "cached" THEN {"one", "many", "fail"} ELSE {"one"} :
          \E snap \in {WriteSnapshot(w, snapOk)} :
             /\ w' = snap.w
             /\ IF snap.err
                THEN Fail("snapshot") /\ UNCHANGED files
                ELSE \E full \in {CompactFull(snap.w, outcome)} :
                     IF full.err
                     THEN Fail("compact") /\ UNCHANGED files
                     ELSE pc' = "replace" /\ files' = full.files /\ UNCHANGED err
    /\ UNCHANGED <<build, unit, config, cmd, rstate, phase, si, fi, wi, index, tsm, ki, chains, writes,
                   wal, shardLog, saves, emitted>>

\* more than one file taken for one
SingleFileAssumed(fs) == FALSE

\* processTSMFile: full compaction yielded more than one file
TooManyFiles(fs) == Len(fs) > 1

\* the end of processTSMFile: the rename of the single file onto the path of
\* the segment, Close, EndTSM on every rule
ReplaceTSM ==
    /\ pc = "replace"
    /\ \E renameOk \in IF files # <<>> THEN BOOLEAN ELSE {TRUE},
          closeOk \in IF w.kind = "cached" THEN BOOLEAN ELSE {TRUE} :
          IF files # <<>> /\ TooManyFiles(files)
          THEN Fail("files") /\ UNCHANGED <<tsm, shardLog>>
          ELSE IF files # <<>> /\ ~renameOk
          THEN Fail("rename") /\ UNCHANGED <<tsm, shardLog>>
          ELSE /\ tsm' = IF files # <<>>
                         THEN [tsm EXCEPT !.replaced = TRUE, !.disk = files[1]]
                         ELSE tsm
               /\ IF w.kind = "cached" /\ ~closeOk
                  THEN Fail("close") /\ UNCHANGED shardLog
                  ELSE /\ shardLog' = shardLog \o Callbacks("end_tsm")
                       /\ pc' = "tsm"
                       /\ UNCHANGED err
    /\ UNCHANGED <<build, unit, config, cmd, rstate, phase, si, fi, wi, index, ki, w, files, chains,
                   writes, wal, saves, emitted>>

(***************************************************************************)
(* processWALFile                                                          *)
(***************************************************************************)
\* the entries of a WAL segment: a write entry with its Values, an entry of
\* another type, an entry the reader fails on
WriteWALEntry(keys) == [type |-> "write", values |-> [k \in keys |-> DataOf(k)]]

DeleteWALEntry == [type |-> "delete", values |-> EmptyMap]

CorruptWALEntry == [type |-> "corrupt", values |-> EmptyMap]

EntryUniverse ==
    {WriteWALEntry({MakeKey("cpu", "h1", "idle"), MakeKey("mem", "h1", "idle")}),
     DeleteWALEntry, CorruptWALEntry}

\* createWALWriter: whether there is a writer
createWALWriter(rs) ==
    LET readRules == filterFlaggedRules(rs, WALReadOnly)
        readonly == Len(readRules) = Len(rs)
    IN  ~(cmd.check \/ readonly)

RECURSIVE RangeValues(_, _, _, _, _, _, _, _)
\* the turn of the loop on key, wr being what the write rules returned; log
\* holds, for each key visited, what each write rule returned for it
RangeWritten(readRules, writeRules, values, initial, visited, toDelete, key, wr, log) ==
    LET logged == Append(log, [key |-> key, applied |-> wr.applied, err |-> wr.err])
    IN  IF wr.err
        THEN {[err |-> TRUE, values |-> values, toDelete |-> toDelete, st |-> wr.st,
               log |-> logged]}
        ELSE IF wr.key = NullKey
        THEN RangeValues(readRules, writeRules, values, initial, visited \cup {key},
                         toDelete \cup {key}, wr.st, logged)
        ELSE RangeValues(readRules, writeRules, MapPut(values, wr.key, wr.values), initial,
                         visited \cup {key},
                         IF wr.key # key THEN toDelete \cup {key} ELSE toDelete, wr.st,
                         logged)

\* the turn of the loop on key, rd being what the read rules returned
RangeRead(readRules, writeRules, values, initial, visited, toDelete, key, rd, log) ==
    IF rd.err
    THEN {[err |-> TRUE, values |-> values, toDelete |-> toDelete, st |-> rd.st,
           log |-> log]}
    ELSE RangeWritten(readRules, writeRules, values, initial, visited, toDelete, key,
                      ApplyWriteRules(writeRules, rd.st, key, values[key], <<>>, FALSE),
                      log)

\* the loop over t.Values, which the loop itself adds keys to: every key that
\* was there when the loop began is visited once, with the values the map
\* holds for it then; a key added on the way is visited or not.  The set of
\* the outcomes [err, values, toDelete, st, log].
RangeValues(readRules, writeRules, values, initial, visited, toDelete, st, log) ==
    (IF ((DOMAIN values) \ visited) \cap initial = {}
     THEN {[err |-> FALSE, values |-> values, toDelete |-> toDelete, st |-> st,
            log |-> log]}
     ELSE {})
    \cup UNION {RangeRead(readRules, writeRules, values, initial, visited, toDelete, key,
                          ApplyReadRules(readRules, st, key, values[key], <<>>), log)
                : key \in (DOMAIN values) \ visited}

\* up to the entry loop: StartWAL on every rule, the file, the writer; what
\* processTSMFile held is gone
OpenWAL ==
    /\ pc \in {"tsm", "wal"}
    /\ fi + wi < MaxFiles
    /\ wi' = wi + 1
    /\ shardLog' = shardLog \o Callbacks("start_wal")
    /\ \E exists \in BOOLEAN :
          LET rs == filterRules([i \in RuleIds |-> i], StartWAL)
          IN  IF Len(rs) = 0 \/ ~exists
              THEN /\ pc' = "wal"
                   /\ wal' = [NoWAL EXCEPT !.exists = exists]
              ELSE /\ pc' = "entries"
                   /\ wal' = [NoWAL EXCEPT !.exists = TRUE,
                                           !.writer = createWALWriter(rs)]
    /\ tsm' = NoTSM
    /\ ki' = 0
    /\ w' = NoopTSMRewriter
    /\ files' = <<>>
    /\ chains' = <<>>
    /\ writes' = <<>>
    /\ UNCHANGED <<build, unit, config, cmd, rstate, phase, err, si, fi, index, saves, emitted>>

\* the file after the loop over the keys of an entry had the outcome o: what
\* the write rules returned for each key, toDelete and t.Values after the
\* deletes are kept, for the properties to read
Seen(file, o) ==
    [file EXCEPT !.chains = o.log, !.toDelete = o.toDelete,
                 !.values = [k \in (DOMAIN o.values) \ o.toDelete |-> o.values[k]]]

\* one turn of the entry loop on the next entry of the file; encodeOk is
\* whether encodeWALEntry succeeds
ProcessWALEntry ==
    /\ pc = "entries"
    /\ ~wal.done
    /\ Len(wal.orig) < MaxEntries
    /\ \E entry \in EntryUniverse :
       LET rs == filterRules([i \in RuleIds |-> i], StartWAL)
           readRules == filterFlaggedRules(rs, WALReadOnly)
           writeRules == filterFlaggedRules(rs, WALWriteOnly)
           read == [wal EXCEPT !.orig = Append(wal.orig, entry), !.chains = <<>>,
                               !.toDelete = {}, !.values = EmptyMap]
           break == [read EXCEPT !.done = TRUE]
           outcomes ==
               IF entry.type = "write"
               THEN RangeValues(readRules, writeRules, entry.values,
                                DOMAIN entry.values, {}, {}, rstate, <<>>)
               ELSE {[err |-> FALSE, values |-> entry.values, toDelete |-> {},
                      st |-> rstate, log |-> <<>>]}
       IN  IF entry.type = "corrupt"
           THEN wal' = break /\ UNCHANGED <<rstate, pc, err>>
           ELSE \E o \in outcomes, encodeOk \in IF wal.writer THEN BOOLEAN ELSE {TRUE} :
                   /\ rstate' = o.st
                   /\ IF o.err
                      THEN Fail("apply") /\ wal' = Seen(read, o)
                      ELSE /\ UNCHANGED <<pc, err>>
                           /\ IF ~wal.writer
                              THEN wal' = Seen(read, o)
                              ELSE IF ~encodeOk
                              THEN wal' = Seen(break, o)
                              ELSE wal' = [Seen(read, o) EXCEPT
                                      !.out = Append(wal.out,
                                          [entry EXCEPT !.values =
                                              [k \in (DOMAIN o.values) \ o.toDelete
                                                  |-> o.values[k]]])]
    /\ UNCHANGED <<build, unit, config, cmd, phase, si, fi, wi, index, tsm, ki, w, files, chains, writes,
                   shardLog, saves, emitted>>

\* after the entry loop, the file having no more entries or the loop left:
\* the rename of the output onto the path of the file; no rule is told that
\* the file is done
CloseWAL ==
    /\ pc = "entries"
    /\ \E renameOk \in IF wal.writer THEN BOOLEAN ELSE {TRUE} :
          IF wal.writer /\ ~renameOk
          THEN Fail("rename") /\ UNCHANGED wal
          ELSE /\ wal' = IF wal.writer THEN [wal EXCEPT !.replaced = TRUE] ELSE wal
               /\ pc' = "wal"
               /\ UNCHANGED err
    /\ UNCHANGED <<build, unit, config, cmd, rstate, phase, si, fi, wi, index, tsm, ki, w, files, chains,
                   writes, shardLog, saves, emitted>>

(***************************************************************************)
(* processShard after the files, and the end of process                    *)
(***************************************************************************)
RECURSIVE EndShards(_, _, _, _, _)
\* EndShard on the rules rs in their order, the errors dropped: the set of
\* the outcomes [st, ix, saves, failed]
EndShards(rs, st, ix, n, failed) ==
    IF rs = <<>> THEN {[st |-> st, ix |-> ix, saves |-> n, failed |-> failed]}
    ELSE LET i == rs[1]
         IN  UNION {EndShards(Tail(rs), [st EXCEPT ![i] = o.acc], o.idx, n + o.saves,
                              IF o.err THEN failed \cup {i} ELSE failed)
                    : o \in EndShard(cmd.rules[i], st[i], ix, cmd.check)}

\* the end of processShard: EndShard on every rule, then the index is saved
\* unless in check mode; saveOk is whether that Save succeeds
LeaveShard ==
    /\ pc \in {"tsm", "wal"}
    /\ \E o \in EndShards([i \in RuleIds |-> i], rstate, index, 0, {}),
          saveOk \in IF cmd.check THEN {TRUE} ELSE BOOLEAN :
          /\ rstate' = o.st
          /\ shardLog' = shardLog \o EndShardCallbacks(o.failed)
          /\ IF cmd.check
             THEN index' = o.ix /\ saves' = saves + o.saves /\ pc' = "shards"
                  /\ UNCHANGED err
             ELSE IF saveOk
             THEN index' = Save(o.ix) /\ saves' = saves + o.saves + 1 /\ pc' = "shards"
                  /\ UNCHANGED err
             ELSE index' = o.ix /\ saves' = saves + o.saves + 1 /\ Fail("save")
    /\ UNCHANGED <<build, unit, config, cmd, phase, si, fi, wi, tsm, ki, w, files, chains, writes, wal,
                   emitted>>

\* the end of process, the shards done: End on every rule; what processShard
\* held is gone
End ==
    /\ pc = "shards"
    /\ phase' = [i \in RuleIds |-> "ended"]
    /\ pc' = "done"
    /\ index' = ShardIndex(EmptyMap, EmptyMap)
    /\ tsm' = NoTSM
    /\ ki' = 0
    /\ w' = NoopTSMRewriter
    /\ files' = <<>>
    /\ chains' = <<>>
    /\ writes' = <<>>
    /\ wal' = NoWAL
    /\ shardLog' = <<>>
    /\ saves' = 0
    /\ emitted' = {}
    /\ fi' = 0
    /\ wi' = 0
    /\ UNCHANGED <<build, unit, config, cmd, rstate, err, si>>

Next ==
    \/ LoadConfig
    \/ Start
    \/ EnterShard
    \/ OpenTSM
    \/ ProcessKey
    \/ CompactTSM
    \/ ReplaceTSM
    \/ OpenWAL
    \/ ProcessWALEntry
    \/ CloseWAL
    \/ LeaveShard
    \/ End

Spec == Init /\ [][Next]_vars

(***************************************************************************)
(* Properties of the TSM pass                                              *)
(***************************************************************************)
\* the turns of the write rules of the chain c that returned a nil key
NilTurns(c) == {j \in DOMAIN c.applied : c.applied[j].key = NullKey}

\* the calls of Write made for the chain c
WritesOf(c) == {k \in DOMAIN writes : writes[k].src = c.src}

\* what the last write rule of the chain c returned, what the chain was given
\* if no write rule took the key
LastOutput(c) ==
    IF c.applied = <<>> THEN [key |-> c.key, values |-> c.values]
    ELSE [key |-> c.applied[Len(c.applied)].key,
          values |-> c.applied[Len(c.applied)].values]

\* C1: drop exclusivity in the TSM pass.  For every key fed to the rules: if a
\* write rule returns a nil key, that rule is the last one applied to the key
\* and the rewriter receives no Write for it; if no write rule returns a nil
\* key and none an error, the rewriter receives exactly one Write for it, with
\* the key and the values the last write rule returned.
DropExclusivity ==
    \A n \in DOMAIN chains :
        /\ NilTurns(chains[n]) # {} =>
              /\ NilTurns(chains[n]) = {Len(chains[n].applied)}
              /\ WritesOf(chains[n]) = {}
        /\ (NilTurns(chains[n]) = {} /\ ~chains[n].err) =>
              /\ Cardinality(WritesOf(chains[n])) = 1
              /\ \A k \in WritesOf(chains[n]) :
                    /\ writes[k].key = LastOutput(chains[n]).key
                    /\ writes[k].values = LastOutput(chains[n]).values

\* C1 witness: in one file a key is dropped by the first of two write rules
\* that both take it, and another key goes through a write rule that changes
\* it and is written
DropExclusivityWitness ==
    /\ \E n \in DOMAIN chains :
          /\ NilTurns(chains[n]) # {}
          /\ Len(chains[n].applied) < Len(RulesForKey(TSMWriteOnly, chains[n].key))
    /\ \E n \in DOMAIN chains :
          /\ NilTurns(chains[n]) = {}
          /\ chains[n].applied # <<>>
          /\ LastOutput(chains[n]).key # chains[n].key
          /\ WritesOf(chains[n]) # {}

\* C7: order preservation.  The calls of Write of a file are, in their order,
\* one for each key that was fed to the rules and not dropped, in the order
\* of the reader: no key is written twice, none before a key read earlier.
OrderPreservation ==
    /\ \A a, b \in DOMAIN writes : a < b => writes[a].src < writes[b].src
    /\ {writes[k].src : k \in DOMAIN writes}
          = {chains[n].src : n \in {x \in DOMAIN chains :
                                       NilTurns(chains[x]) = {} /\ ~chains[x].err}}
    /\ \A a, b \in DOMAIN chains : a < b => KeyLess(chains[a].key, chains[b].key)

\* C7 witness: the first key of a file is dropped and the second written, or
\* two keys are written
OrderPreservationWitness ==
    /\ Len(chains) = 2
    /\ Len(writes) = 2
    /\ writes[1].key # chains[1].key

\* what is at the path of the TSM file at hand
AtPath == IF tsm.replaced THEN tsm.disk ELSE tsm.orig

\* C2: survivors replace the original.  After a TSM pass that completes without
\* error, outside check mode and with a write rule among the rules, the file at
\* the path of the segment holds no key for which the write rules returned a
\* nil key, also when every key of the segment is dropped.
SurvivorsReplaceOriginal ==
    (/\ pc = "tsm"
     /\ fi >= 1
     /\ tsm.readable
     /\ ~cmd.check
     /\ Len(filterFlaggedRules([i \in RuleIds |-> i], TSMWriteOnly)) > 0)
        => \A n \in DOMAIN chains :
              NilTurns(chains[n]) # {} => chains[n].key \notin DOMAIN AtPath

\* C3: check mode changes nothing on disk.  In a run in check mode no TSM file
\* is replaced and no rewriter other than the no-op one is made, no WAL writer
\* is made and no WAL file replaced, the index is never saved and fields.idx
\* holds what it held when the shard was loaded.
CheckModeChangesNothing ==
    cmd.check =>
        /\ ~tsm.replaced
        /\ w.kind = "noop"
        /\ ~wal.writer
        /\ ~wal.replaced
        /\ saves = 0
        /\ index.disk = index.orig

\* C3 witness: in check mode a shard is done in which a key was dropped and
\* the index in memory was changed by the rules
CheckModeChangesNothingWitness ==
    /\ cmd.check
    /\ pc = "shards"
    /\ si >= 1
    /\ index.cur # index.orig
    /\ \E n \in DOMAIN chains : NilTurns(chains[n]) # {}

\* C8: originals are modified only by the final rename.  What is at the path
\* of the segment changes only in the step that renames the single file of
\* the full compaction onto it, and when the pass ends with an error of a
\* rule, of Write, of the snapshot, of the compaction or for more than one
\* file, the segment is not replaced.
OnlyRenameModifies ==
    [][/\ (tsm'.replaced /\ (~tsm.replaced \/ tsm'.disk # tsm.disk))
              => (pc = "replace" /\ files = <<tsm'.disk>>)
       /\ (pc' = "failed" /\ err' \in {"apply", "write", "snapshot", "compact", "files"})
              => ~tsm'.replaced]_vars

\* C8 witness: the full compaction yielded two files, the pass ended with the
\* error and the segment is not replaced
OnlyRenameModifiesWitness ==
    /\ pc = "failed"
    /\ err = "files"
    /\ Len(files) = 2
    /\ ~tsm.replaced
    /\ writes # <<>>

(***************************************************************************)
(* Properties of the shard pass                                            *)
(***************************************************************************)
\* the callbacks made on the rule i since the shard was entered
CallbacksOf(i) ==
    [j \in 1..Len(SelectSeq(shardLog, LAMBDA e : e[1] = i)) |->
        SelectSeq(shardLog, LAMBDA e : e[1] = i)[j][2]]

\* the order of the callbacks of a shard, seq being the ones made so far
InLifecycleOrder(seq) ==
    \A j \in DOMAIN seq :
        /\ (j = 1) <=> (seq[j] = "start_shard")
        /\ seq[j] = "start_tsm" =>
              /\ j = Len(seq) \/ seq[j + 1] = "end_tsm"
              /\ \A k \in 1..j : seq[k] # "start_wal"
        /\ seq[j] = "end_tsm" => seq[j - 1] = "start_tsm"
        /\ seq[j] = "start_wal" => (j = Len(seq) \/ seq[j + 1] = "end_wal")
        /\ seq[j] = "end_wal" => seq[j - 1] = "start_wal"
        /\ seq[j] = "end_shard" => j = Len(seq)

\* C5: callback lifecycle.  Every rule is started before its first shard and
\* ended after its last, and within a shard it receives start_shard, then for
\* each TSM file start_tsm and end_tsm, then for each WAL file start_wal and
\* end_wal, then end_shard: every start_tsm is followed by end_tsm and every
\* start_wal by end_wal before anything else.
CallbackLifecycle ==
    \A i \in RuleIds :
        /\ shardLog # <<>> => phase[i] = "started"
        /\ InLifecycleOrder(CallbacksOf(i))

\* C6: rule order is the configuration order.  LoadConfig returns the rules in
\* the order of their entries in the file, and the write rules are applied to
\* each key in the order of that list.
RuleOrderIsConfigOrder ==
    [][/\ pc = "load" => cmd'.rules = cmd.rules \o config
       /\ \A n \in DOMAIN chains' :
             \A a, b \in DOMAIN chains'[n].applied :
                a < b => chains'[n].applied[a].rule < chains'[n].applied[b].rule]_vars

\* C9: the index is saved exactly once per shard pass outside check mode,
\* counting the pipeline and the EndShard of every rule.
SavedOncePerShard ==
    (pc = "shards" /\ si >= 1 /\ ~cmd.check) => saves = 1

\* the rules that keep index changes to replay in EndShard
IndexRules ==
    {"drop-measurement", "rename-measurement", "drop-field", "rename-field",
     "update-field-type"}

\* C10: accumulators are confined to one shard.  Right after StartShard the
\* accumulator of every rule that keeps index changes is empty, whatever
\* happened in the shards before.
AccumulatorsConfined ==
    (pc = "tsm" /\ fi = 0 /\ wi = 0)
        => \A i \in RuleIds : cmd.rules[i].kind \in IndexRules => rstate[i] = EmptyMap

\* the fields of the measurement m in the index idx, with their types
IndexFields(idx, m) ==
    IF m \in DOMAIN idx THEN {<<f, idx[m][f]>> : f \in DOMAIN idx[m]} ELSE {}

\* the fields of the measurement m in the keys of data, with the types of
\* their batches
DataFields(data, m) ==
    {<<k.f, InfluxQLType(data[k]).type>> : k \in {x \in DOMAIN data : x.m = m}}

\* the index idx holds the measurements and fields of data and no other
Coherent(idx, data) ==
    /\ DOMAIN idx = {k.m : k \in DOMAIN data}
    /\ \A m \in DOMAIN idx : IndexFields(idx, m) = DataFields(data, m)

\* C4: index coherence.  From an index coherent with the data of the shard,
\* after the write rules were applied to every key and EndShard was called
\* on every rule, the fields of the index for every measurement of the
\* emitted keys are exactly the fields and types of the emitted keys of that
\* measurement.
IndexCoherence ==
    (/\ pc = "shards"
     /\ fi = 1
     /\ tsm.readable
     /\ Coherent(index.orig, tsm.orig)
     /\ Len(chains) = Cardinality(DOMAIN tsm.orig)
     /\ \A i \in RuleIds : TSMWriteOnly \in Flags(cmd.rules[i]))
        => \A m \in {e[1] : e \in emitted} :
              IndexFields(index.cur, m) = {<<e[2], e[3]>> : e \in {x \in emitted : x[1] = m}}

(***************************************************************************)
(* Properties of what the pipeline does with what the callbacks return     *)
(***************************************************************************)
\* the rules whose StartShard returned false for the shard at hand
Declined == {e[1] : e \in {x \in Range(shardLog) : x[2] = "start_shard" /\ ~x[3]}}

\* the rules that were applied to a key of the file at hand
AppliedRules ==
    UNION {{a.rule : a \in Range(chains[n].reads) \cup Range(chains[n].applied)}
           : n \in DOMAIN chains}

\* C11: a rule whose StartShard returned false for a shard is not active in
\* it: it receives no start_tsm, no start_wal and no Apply for any file of
\* the shard.
InactiveWhenDeclined ==
    \A i \in Declined :
        /\ \A e \in Range(shardLog) : e[1] = i => e[2] \notin {"start_tsm", "start_wal"}
        /\ i \notin AppliedRules

\* the rules whose EndShard returned an error for the shard at hand
EndShardErrors == {e[1] : e \in {x \in Range(shardLog) : x[2] = "end_shard" /\ ~x[3]}}

\* C12: an error returned by the EndShard of a rule makes the pass of the
\* shard fail: processShard never returns without error after one.
EndShardErrorIsFatal ==
    (pc = "shards" /\ err = "") => EndShardErrors = {}

(***************************************************************************)
(* A rule driven alone, as the tests of the package drive one: it is       *)
(* built, CheckMode is set, StartShard is given a shard, Apply is called   *)
(* on keys and EndShard replays what Apply has kept.  EnsureValueType is   *)
(* called alone too.                                                       *)
(***************************************************************************)
MaxCalls == 2

MaxUnitShards == 2

MaxUnitFiles == 2

\* the rules that report at End: they are driven over more than one shard
\* and End is called on them
Reporting == {"old-serie", "show-field-key-multiple-types"}

\* the rules driven alone: renames to a name, onto one name and by a pattern,
\* a rename to the name the measurement has, drops of fields, changes of type,
\* drops of series with and without a field filter
UnitRules ==
    {NewRenameMeasurementWithFilter(IncludeFilter({"cpu"}), "linux"),
     NewRenameMeasurementWithFilter(IncludeFilter({"cpu", "mem"}), "linux"),
     NewRenameMeasurementWithFilter(PatternFilter({"cpu", "linux.cpu"}), "linux.$1"),
     NewRenameMeasurementWithFilter(IncludeFilter({"cpu"}), "cpu"),
     NewDropField(IncludeFilter({"cpu"}), IncludeFilter({"idle", "up"}), AlwaysTrueFilter),
     NewDropField(AlwaysTrueFilter, IncludeFilter({"idle"}), IncludeFilter({"float"})),
     NewUpdateFieldType(AlwaysTrueFilter, IncludeFilter({"idle"}), "float", "integer"),
     NewUpdateFieldType(IncludeFilter({"cpu"}), IncludeFilter({"idle"}), "boolean", "float"),
     NewUpdateFieldType(IncludeFilter({"cpu"}), AlwaysTrueFilter, "string", "integer"),
     NewUpdateFieldType(IncludeFilter({"cpu"}), AlwaysTrueFilter, "unsigned", "integer"),
     NewUpdateFieldType(IncludeFilter({"cpu"}), IncludeFilter({"idle"}), "float", "float"),
     NewUpdateFieldType(AlwaysTrueFilter, IncludeFilter({"idle"}), "integer", "time"),
     DropSerieRuleConfigBuild(NewSerieFilter(IncludeFilter({"cpu"}), NewWhereFilter({"h1"}),
                                             IncludeFilter({"idle"}))),
     DropSerieRuleConfigBuild(NewSerieFilter(IncludeFilter({"cpu"}), NewWhereFilter({"h2"}),
                                             NilFilter)),
     NewOldSerieRule(2, FALSE),
     NewOldSerieRule(2, TRUE),
     NewShowFieldKeyMultipleTypes(IncludeFilter({"cpu"}), AlwaysTrueFilter),
     NewShowFieldKeyMultipleTypes(AlwaysTrueFilter, IncludeFilter({"idle"})),
     NewUpdateTagValueRule(HasPrefixFilter("linux."), IncludeFilter({"host"}),
                           PatternFilter({"h1"}), "dc-$1"),
     NewUpdateTagValueRule(IncludeFilter({"cpu"}), IncludeFilter({"host"}),
                           IncludeFilter({"h1"}), "h2"),
     NewRenameField(IncludeFilter({"cpu"}), IncludeFilter({"idle"}), "busy"),
     NewRenameField(AlwaysTrueFilter, PatternFilter({"idle", "up"}), "dc-$1"),
     NewRenameField(PatternFilter({"cpu"}), IncludeFilter({"idle"}), "busy")}

UnitKeys ==
    {MakeKey("cpu", "h1", "idle"), MakeKey("cpu", "h2", "up"), MakeKey("mem", "h1", "idle"),
     MakeKey("linux.cpu", "h1", "idle")}

\* the batches of values: 1.5 and 2, 2 and 20, integers, a boolean, strings
\* and an unsigned
UnitBatches ==
    {<<Value(1, "float", 3), Value(2, "float", 4)>>,
     <<Value(1, "float", 4), Value(2, "float", 40)>>,
     <<Value(1, "integer", 1), Value(2, "integer", -3)>>,
     <<Value(1, "boolean", 1)>>,
     <<NewStringValue(1, "1"), NewStringValue(2, "x")>>,
     <<NewStringValue(1, "1")>>,
     <<Value(1, "unsigned", 1)>>}

\* the keys given to old-serie: two fields of one series, two series of one
\* measurement, another measurement
OldSerieKeys ==
    {MakeKey("cpu", "h1", "idle"), MakeKey("cpu", "h1", "up"), MakeKey("cpu", "h2", "idle"),
     MakeKey("mem", "h1", "idle")}

\* the batches given to old-serie, in ascending order of time: none, up to the
\* time of the rule, beyond it
OldSerieBatches ==
    {<<>>,
     <<Value(1, "float", 3)>>,
     <<Value(1, "float", 3), Value(2, "float", 4)>>,
     <<Value(2, "float", 3), Value(3, "float", 4)>>}

\* the keys and the batches Apply is called with on the rule r
UnitInputs(r) ==
    CASE r.kind = "old-serie" -> [keys |-> OldSerieKeys, batches |-> OldSerieBatches]
      [] r.kind = "show-field-key-multiple-types" ->
            [keys |-> UnitKeys, batches |-> {<<Value(1, "float", 3)>>}]
      [] OTHER -> [keys |-> UnitKeys, batches |-> UnitBatches]

\* a schema in which linux.cpu exists beside cpu and mem
LinuxSchema ==
    [m \in {"cpu", "mem", "linux.cpu"} |->
        CASE m = "cpu" -> [f \in {"idle", "up"} |-> IF f = "up" THEN "boolean" ELSE "float"]
          [] m = "mem" -> [f \in {"idle", "busy"} |-> "float"]
          [] OTHER -> [f \in {"idle"} |-> "integer"]]

UnitIndexChoices == {FullSchema, PartSchema, LinuxSchema}

\* the schema of a shard in which the idle of cpu is an integer
RetypedSchema ==
    [m \in {"cpu", "mem"} |->
        IF m = "cpu" THEN [f \in {"idle", "up"} |-> IF f = "up" THEN "boolean" ELSE "integer"]
        ELSE [f \in {"idle"} |-> "float"]]

\* the values and the types EnsureValueType is called with
CastValues ==
    {Value(5, "float", v) : v \in {0, 3, -3, 40, -40}}
    \cup {Value(5, "integer", v) : v \in {0, 1, 2, -1}}
    \cup {Value(5, "unsigned", v) : v \in {0, 1, 2}}
    \cup {Value(5, "boolean", v) : v \in {0, 1}}
    \cup {NewStringValue(5, v) : v \in {"1", "1.5", "true", "x"}}

CastTypes == Types \cup {"time"}

\* the command when a rule is driven alone: none runs
NoCommand ==
    [check |-> FALSE, rules |-> <<>>, given |-> <<>>, filter |-> PassFilter,
     maxCacheSize |-> 0, cacheSnapshotSize |-> 8]

\* a rule is built and CheckMode is called, or nothing is built and
\* EnsureValueType will be called
UnitInit ==
    /\ config = <<>>
    /\ cmd = NoCommand
    /\ rstate = <<>>
    /\ phase = <<>>
    /\ pc = "load"
    /\ err = ""
    /\ si = 0
    /\ fi = 0
    /\ wi = 0
    /\ index = ShardIndex(EmptyMap, EmptyMap)
    /\ tsm = NoTSM
    /\ ki = 0
    /\ w = NoopTSMRewriter
    /\ files = <<>>
    /\ chains = <<>>
    /\ writes = <<>>
    /\ wal = NoWAL
    /\ shardLog = <<>>
    /\ saves = 0
    /\ emitted = {}
    /\ build \in Builds
    /\ \/ \E r \in UnitRules, c \in BOOLEAN, schema \in UnitIndexChoices :
             unit = [phase |-> "new", rule |-> r, check |-> c, acc |-> EmptyMap,
                     index |-> ShardIndex(schema, schema), calls |-> <<>>,
                     ended |-> <<>>, casts |-> <<>>, shards |-> 0, past |-> <<>>,
                     out |-> <<>>, tsm |-> "closed", files |-> <<>>]
       \/ unit = [phase |-> "cast", rule |-> BaseRule, check |-> FALSE, acc |-> EmptyMap,
                  index |-> ShardIndex(EmptyMap, EmptyMap), calls |-> <<>>,
                  ended |-> <<>>, casts |-> <<>>, shards |-> 0, past |-> <<>>,
                  out |-> <<>>, tsm |-> "closed", files |-> <<>>]

Pipeline ==
    <<config, cmd, rstate, phase, pc, err, si, fi, wi, index, tsm, ki, w, files, chains,
      writes, wal, shardLog, saves, emitted, build>>

\* rule.StartShard(info)
TestStartShard ==
    /\ unit.phase = "new"
    /\ unit' = [unit EXCEPT !.phase = "shard", !.acc = StartShard(unit.rule, unit.acc),
                            !.shards = 1]
    /\ UNCHANGED Pipeline

\* rule.StartShard(info) on the next shard, the calls of Apply of the shards
\* before being kept in past
TestNextShard ==
    /\ unit.phase = "ended"
    /\ unit.rule.kind \in Reporting
    /\ unit.shards < MaxUnitShards
    /\ \E schema \in UnitIndexChoices \cup {RetypedSchema} :
          unit' = [unit EXCEPT !.phase = "shard",
                               !.acc = StartShard(unit.rule, unit.acc),
                               !.index = ShardIndex(schema, schema),
                               !.shards = unit.shards + 1,
                               !.past = unit.past \o unit.calls,
                               !.calls = <<>>]
    /\ UNCHANGED Pipeline

\* the rules whose StartTSM and EndTSM have a body: they are driven inside
\* the files of the shard
Counting == {"drop-serie"}

\* rule.StartTSM(path)
TestStartTSM ==
    /\ unit.phase = "shard"
    /\ unit.rule.kind \in Counting
    /\ unit.tsm = "closed"
    /\ Len(unit.files) < MaxUnitFiles
    /\ unit' = [unit EXCEPT !.tsm = "open", !.acc = DropSerieStartTSM(unit.acc)]
    /\ UNCHANGED Pipeline

\* rule.EndTSM(): the accumulator it found and what it did are kept; the
\* process is gone when it panics
TestEndTSM ==
    /\ unit.phase = "shard"
    /\ unit.rule.kind \in Counting
    /\ unit.tsm = "open"
    /\ \E out \in {DropSerieEndTSM(unit.acc)} :
          unit' = [unit EXCEPT !.tsm = "closed",
                               !.phase = IF out.fault THEN "panic" ELSE "shard",
                               !.acc = out.acc,
                               !.files = Append(unit.files, [acc |-> unit.acc, out |-> out])]
    /\ UNCHANGED Pipeline

\* rule.Apply(key, values): the call is kept with the accumulator it found and
\* with what it returned
TestApply ==
    /\ unit.phase = "shard"
    /\ unit.rule.kind \in Counting => unit.tsm = "open"
    /\ Len(unit.past) + Len(unit.calls) < MaxCalls
    /\ \E key \in UnitInputs(unit.rule).keys, values \in UnitInputs(unit.rule).batches :
          \E out \in {Apply(unit.rule, unit.acc, key, values)} :
             unit' = [unit EXCEPT
                         !.acc = out.acc,
                         !.calls = Append(unit.calls,
                                          [key |-> key, values |-> values,
                                           acc |-> unit.acc, out |-> out])]
    /\ UNCHANGED Pipeline

\* rule.EndShard(): the index it found and what it returned are kept
TestEndShard ==
    /\ unit.phase = "shard"
    /\ unit.rule.kind \in Counting => unit.tsm = "closed"
    /\ \E out \in EndShard(unit.rule, unit.acc, unit.index, unit.check) :
          unit' = [unit EXCEPT !.phase = "ended", !.acc = out.acc, !.index = out.idx,
                               !.ended = Append(unit.ended,
                                                [index |-> unit.index, acc |-> unit.acc,
                                                 out |-> out])]
    /\ UNCHANGED Pipeline

\* rule.End(): what it has written is kept
TestEnd ==
    /\ unit.phase = "ended"
    /\ unit.rule.kind \in Reporting
    /\ \E out \in RuleEnd(unit.rule, unit.acc) :
          unit' = [unit EXCEPT !.phase = "done", !.out = out]
    /\ UNCHANGED Pipeline

\* EnsureValueType(value, expectedType)
TestEnsureValueType ==
    /\ unit.phase = "cast"
    /\ unit.casts = <<>>
    /\ \E value \in CastValues, expectedType \in CastTypes :
          unit' = [unit EXCEPT
                      !.casts = Append(unit.casts,
                                       [value |-> value, expectedType |-> expectedType,
                                        out |-> EnsureValueType(value, expectedType)])]
    /\ UNCHANGED Pipeline

UnitNext ==
    \/ TestStartShard
    \/ TestStartTSM
    \/ TestEndTSM
    \/ TestApply
    \/ TestEndShard
    \/ TestNextShard
    \/ TestEnd
    \/ TestEnsureValueType

UnitSpec == UnitInit /\ [][UnitNext]_vars

(***************************************************************************)
(* Properties of the rules driven alone                                    *)
(***************************************************************************)
\* the calls of Apply made on the rule
UnitCalls == Range(unit.calls)

\* the rule driven is of the kind given
Driven(kind) == unit.phase \in {"shard", "ended"} /\ unit.rule.kind = kind

\* C13: Apply of rename-measurement returns, for a key whose measurement passes
\* the from filter, the key of the renamed measurement with the same tags and
\* the same field, and the values it was given; it returns any other key and
\* its values as they are.  The new name is the replacement by to of what the
\* pattern matches when from is a pattern filter, and to otherwise.
RenameMeasurementApplies ==
    Driven("rename-measurement") =>
        \A c \in UnitCalls :
            LET from == unit.rule.measurement
                newName == IF from.type = "pattern"
                           THEN ReplaceAll(from, c.key.m, unit.rule.to)
                           ELSE unit.rule.to
            IN  /\ ~c.out.err
                /\ c.out.values = c.values
                /\ c.out.key = IF Filter(from, c.key.m)
                               THEN MakeKey(newName, c.key.t, c.key.f)
                               ELSE c.key

\* a measurement has been renamed by a pattern, its tags and field kept, and a
\* key of another measurement has been returned as it was
RenameMeasurementAppliesWitness ==
    /\ Driven("rename-measurement")
    /\ unit.rule.measurement.type = "pattern"
    /\ \E c \in UnitCalls :
          /\ c.key = MakeKey("cpu", "h2", "up")
          /\ c.out.key = MakeKey("linux.cpu", "h2", "up")
          /\ c.out.values = c.values
    /\ \E c \in UnitCalls : c.key.m = "mem" /\ c.out.key = c.key

\* what the first EndShard found and returned, once it has been called
Ended == unit.ended[1]

\* the pairs of a measurement and the other name Apply gave it in the shard
ObservedRenames ==
    {p \in {<<c.key.m, c.out.key.m>> : c \in UnitCalls} : p[1] # p[2]}

\* C14: after EndShard of rename-measurement, for each pair (old, new) with
\* old different from new that Apply has observed in the shard, the index has
\* no entry for old and has an entry for new whose fields and types are those
\* old had before EndShard, whatever the order of the replay; the accumulator
\* is empty afterwards.
RenameMeasurementEndsShard ==
    (Driven("rename-measurement") /\ unit.phase = "ended") =>
        /\ \A p \in ObservedRenames :
              p[1] \in DOMAIN Ended.index.cur =>
                  /\ p[1] \notin DOMAIN unit.index.cur
                  /\ p[2] \in DOMAIN unit.index.cur
                  /\ unit.index.cur[p[2]] = Ended.index.cur[p[1]]
        /\ unit.acc = EmptyMap

\* the rule driven renames a measurement to the name it has
NoOpRename ==
    /\ Driven("rename-measurement")
    /\ unit.rule.measurement = IncludeFilter({unit.rule.to})

DroppedFields(m) == {c.key.f : c \in {x \in UnitCalls : x.key.m = m /\ x.out.key = NullKey}}

\* C16: Apply of drop-field drops a key iff the measurement filter, the field
\* filter and the type filter all pass, and returns any other key as it is;
\* after EndShard outside check mode the fields of each measurement of the
\* index are those it had minus every field dropped in the shard, with the
\* types they had, and a measurement without a dropped field is unchanged.
DropFieldDropsAndReplays ==
    Driven("drop-field") =>
        /\ \A c \in UnitCalls :
              IF /\ Filter(unit.rule.measurement, c.key.m)
                 /\ Filter(unit.rule.field, c.key.f)
                 /\ Filter(unit.rule.type, c.values[1].type)
              THEN c.out.key = NullKey
              ELSE c.out.key = c.key /\ c.out.values = c.values
        /\ (unit.phase = "ended" /\ ~unit.check) =>
              \A m \in DOMAIN Ended.index.cur :
                  /\ m \in DOMAIN unit.index.cur
                  /\ unit.index.cur[m] =
                        [f \in (DOMAIN Ended.index.cur[m]) \ DroppedFields(m) |->
                            Ended.index.cur[m][f]]

\* C17: a drop-serie rule built from a serie filter drops a key iff its
\* measurement passes the measurement filter, its tags pass the tag filter and
\* its field passes the field filter, every field passing when the serie filter
\* has no field filter; it returns any other key as it is and EndShard leaves
\* the index as it was.
DropSerieDropsBySerieFilter ==
    Driven("drop-serie") =>
        /\ \A c \in UnitCalls :
              LET serie == unit.rule.dropFilter.filter
              IN  IF /\ Filter(serie.measurementFilter, c.key.m)
                     /\ Filter(serie.tagsFilter, c.key.t)
                     /\ serie.fieldFilter # NilFilter => Filter(serie.fieldFilter, c.key.f)
                  THEN c.out.key = NullKey
                  ELSE c.out.key = c.key /\ c.out.values = c.values
        /\ unit.phase = "ended" => unit.index = Ended.index

\* the call c was made on a key the filters of the rule take, with a batch of
\* the type the rule changes
ToBeCast(c) ==
    /\ Filter(unit.rule.measurement, c.key.m)
    /\ Filter(unit.rule.field, c.key.f)
    /\ c.values[1].type = unit.rule.fromType
    /\ unit.rule.fromType # unit.rule.toType

\* C18: Apply of update-field-type, on a key that passes the filters with a
\* batch of type fromType, fromType differing from toType, returns the key
\* with every value cast to toType at the timestamp it had, or a nil key, nil
\* values and an error when a value fails to cast; any other key and batch is
\* returned as it is.
UpdateFieldTypeApplies ==
    Driven("update-field-type") =>
        \A c \in UnitCalls :
            IF ~ToBeCast(c)
            THEN c.out.key = c.key /\ c.out.values = c.values /\ ~c.out.err
            ELSE IF \E i \in DOMAIN c.values : EnsureValueType(c.values[i], unit.rule.toType).err
            THEN c.out.key = NullKey /\ c.out.values = NoValues /\ c.out.err
            ELSE /\ c.out.key = c.key
                 /\ ~c.out.err
                 /\ Len(c.out.values) = Len(c.values)
                 /\ \A i \in DOMAIN c.values :
                       /\ c.out.values[i] = EnsureValueType(c.values[i], unit.rule.toType).value
                       /\ c.out.values[i].ts = c.values[i].ts

\* the floats 1.5 and 2 of a batch have been cast to the integers 1 and 2, and
\* a batch of strings has failed on its second value
UpdateFieldTypeAppliesWitness ==
    /\ Driven("update-field-type")
    /\ \/ \E c \in UnitCalls :
             /\ ToBeCast(c)
             /\ c.values = <<Value(1, "float", 3), Value(2, "float", 4)>>
             /\ c.out.values = <<Value(1, "integer", 1), Value(2, "integer", 2)>>
       \/ \E c \in UnitCalls :
             /\ ToBeCast(c)
             /\ c.values = <<NewStringValue(1, "1"), NewStringValue(2, "x")>>
             /\ c.out.err
    /\ Len(unit.calls) = MaxCalls
    /\ \E c \in UnitCalls : ToBeCast(c) /\ c.out.err
    /\ \E c \in UnitCalls : ToBeCast(c) /\ ~c.out.err

\* the float of h halves without its fractional part
Trunc(h) == IF h >= 0 THEN h \div 2 ELSE -((-h) \div 2)

\* the types EnsureValueType casts to
TargetTypes == {"float", "integer", "boolean", "string"}

\* the cast c is of a value to the type it has, or of an i64 or u64 to integer
Unchanged(c) ==
    \/ c.value.type = c.expectedType /\ c.expectedType \in TargetTypes
    \/ c.value.type \in {"integer", "unsigned"} /\ c.expectedType = "integer"

\* C19: EnsureValueType casts an i64 or u64 to the boolean v = 1, an f64 to the
\* boolean v # 0, a bool to the integer 1 or 0, an f64 to the integer it has
\* once truncated toward zero; it fails on a bool cast to float and on an
\* unknown target type; it returns an i64 or u64 cast to integer, and a value
\* cast to its own type, as it is and flagged as not converted; every other
\* successful conversion keeps the timestamp and is flagged as converted.
ConversionMatrix ==
    unit.phase = "cast" =>
        \A c \in Range(unit.casts) :
            LET v == c.value
                t == c.expectedType
                o == c.out
            IN  /\ t \notin TargetTypes => o.err
                /\ (v.type \in {"integer", "unsigned"} /\ t = "boolean") =>
                      ~o.err /\ o.value = Value(v.ts, "boolean", IF v.v = 1 THEN 1 ELSE 0)
                /\ (v.type = "float" /\ t = "boolean") =>
                      ~o.err /\ o.value = Value(v.ts, "boolean", IF v.v # 0 THEN 1 ELSE 0)
                /\ (v.type = "boolean" /\ t = "integer") =>
                      ~o.err /\ o.value = Value(v.ts, "integer", IF v.v = 1 THEN 1 ELSE 0)
                /\ (v.type = "boolean" /\ t = "float") => o.err
                /\ (v.type = "float" /\ t = "integer") =>
                      ~o.err /\ o.value = Value(v.ts, "integer", Trunc(v.v))
                /\ Unchanged(c) => ~o.err /\ o.ok /\ o.value = v
                /\ (~o.err /\ ~Unchanged(c)) => ~o.ok /\ o.value.ts = v.ts

\* the pairs of a measurement and a field the accumulator acc holds
RecordedPairs(acc) == UNION {{<<m, f>> : f \in Range(acc[m])} : m \in DOMAIN acc}

\* the loop of the call c has reached a value that was converted
Converted(c) ==
    /\ ToBeCast(c)
    /\ \E i \in DOMAIN c.values :
          /\ \A j \in 1..i : ~EnsureValueType(c.values[j], unit.rule.toType).err
          /\ ~EnsureValueType(c.values[i], unit.rule.toType).ok

\* C20: update-field-type records a pair of measurement and field iff a value
\* of one of its batches was converted, and records it once; after EndShard
\* every recorded field has the type toType in the index and nothing else of
\* the index has changed; EndShard returns an error when a recorded
\* measurement or field is not in the index.
UpdateFieldTypeTracks ==
    Driven("update-field-type") =>
        /\ RecordedPairs(unit.acc)
              = {<<c.key.m, c.key.f>> : c \in {x \in UnitCalls : Converted(x)}}
        /\ \A m \in DOMAIN unit.acc :
              \A i, j \in DOMAIN unit.acc[m] : unit.acc[m][i] = unit.acc[m][j] => i = j
        /\ unit.phase = "ended" =>
              LET before == Ended.index.cur
                  after == unit.index.cur
                  absent == {p \in RecordedPairs(Ended.acc) :
                                p[1] \notin DOMAIN before \/ p[2] \notin DOMAIN before[p[1]]}
              IN  /\ absent # {} => Ended.out.err
                  /\ ~Ended.out.err =>
                        /\ DOMAIN after = DOMAIN before
                        /\ \A m \in DOMAIN before :
                              /\ DOMAIN after[m] = DOMAIN before[m]
                              /\ \A f \in DOMAIN before[m] :
                                    after[m][f] = IF <<m, f>> \in RecordedPairs(Ended.acc)
                                                  THEN unit.rule.toType
                                                  ELSE before[m][f]

\* the floats of idle of cpu have been converted to integers, the pair has
\* been recorded and EndShard has changed the type of the field in the index
UpdateFieldTypeTracksWitness ==
    /\ Driven("update-field-type")
    /\ unit.phase = "ended"
    /\ ~Ended.out.err
    /\ RecordedPairs(Ended.acc) = {<<"cpu", "idle">>}
    /\ Len(unit.calls) = MaxCalls
    /\ \A c \in UnitCalls : Converted(c)
    /\ Ended.index.cur["cpu"]["idle"] = "float"
    /\ unit.index.cur["cpu"]["idle"] = "integer"

(***************************************************************************)
(* Properties of the rules that report at End                              *)
(***************************************************************************)
\* the calls of Apply made on the rule in every shard
AllCalls == Range(unit.past \o unit.calls)

\* the timestamps the calls of Apply have given for the key k of old-serie
TimesSeen(k) ==
    UNION {{c.values[i].ts : i \in DOMAIN c.values}
           : c \in {x \in AllCalls : OldSerieMakeKey(unit.rule, x.key) = k}}

\* C21: Apply of old-serie returns a nil key and nil values without error.
\* After calls of Apply on batches in ascending order of time, over one or
\* more shards, End writes exactly the keys (series keys, or composite keys
\* with byField) that were given a value and no value after the time of the
\* rule, each once and in ascending order.
OldSerieEmits ==
    unit.rule.kind = "old-serie" =>
        /\ \A c \in AllCalls : c.out.key = NullKey /\ c.out.values = NoValues /\ ~c.out.err
        /\ unit.phase = "done" =>
              /\ Range(unit.out)
                    = {k \in {OldSerieMakeKey(unit.rule, c.key) : c \in AllCalls} :
                          /\ TimesSeen(k) # {}
                          /\ \A t \in TimesSeen(k) : t <= unit.rule.unixNano}
              /\ \A i, j \in DOMAIN unit.out : i < j => KeyLess(unit.out[i], unit.out[j])

\* a series was given a batch beyond the time of the rule in one shard and a
\* batch before it in the next, and End has written another series only
OldSerieEmitsWitness ==
    /\ unit.rule.kind = "old-serie"
    /\ unit.phase = "done"
    /\ unit.shards = 2
    /\ Len(unit.past) = 1
    /\ Len(unit.calls) = 1
    /\ unit.past[1].key = unit.calls[1].key
    /\ unit.past[1].values # <<>>
    /\ unit.past[1].values[Len(unit.past[1].values)].ts > unit.rule.unixNano
    /\ unit.calls[1].values # <<>>
    /\ unit.calls[1].values[Len(unit.calls[1].values)].ts <= unit.rule.unixNano
    /\ unit.out = <<>>

\* the types of the entries of the list l
TypesOf(l) == {l[i].fieldType : i \in DOMAIN l}

\* the list recorded in acc for the field f of the measurement m
Recorded(acc, m, f) ==
    IF m \in DOMAIN NotedMeasurements(acc) /\ f \in DOMAIN NotedMeasurements(acc)[m]
    THEN NotedMeasurements(acc)[m][f]
    ELSE <<>>

\* the pairs of a measurement and a field acc holds a list for
RecordedFields(acc) ==
    UNION {{<<m, f>> : f \in DOMAIN NotedMeasurements(acc)[m]}
           : m \in DOMAIN NotedMeasurements(acc)}

\* the EndShard e has left the list of f of m as it was, or has appended to
\* it the type f has in the index of the shard, m being noted and the type new
AppendedIfNew(e, m, f) ==
    LET before == Recorded(e.acc, m, f)
        after == Recorded(e.out.acc, m, f)
    IN  \/ after = before
        \/ /\ m \in DOMAIN NotedMeasurements(e.acc)
           /\ m \in DOMAIN e.index.cur
           /\ f \in DOMAIN e.index.cur[m]
           /\ e.index.cur[m][f] \notin TypesOf(before)
           /\ after = Append(before, [shard |-> ShardID(e.acc), key |-> f,
                                      fieldType |-> e.index.cur[m][f]])

\* C22: in show-field-key-multiple-types the list recorded for a measurement
\* and a field never holds a type twice; EndShard appends to a list only the
\* type the field has in the index of the shard, only for a measurement Apply
\* has noted and only when the list does not hold it; Apply returns a nil key
\* and changes no list; the index is left as it was; End writes one line for
\* a measurement and a field iff two types or more are recorded for them.
MultipleTypesRecorded ==
    unit.rule.kind = "show-field-key-multiple-types" =>
        /\ \A p \in RecordedFields(unit.acc) :
              \A i, j \in DOMAIN Recorded(unit.acc, p[1], p[2]) :
                 Recorded(unit.acc, p[1], p[2])[i].fieldType
                    = Recorded(unit.acc, p[1], p[2])[j].fieldType => i = j
        /\ \A c \in AllCalls :
              /\ c.out.key = NullKey /\ c.out.values = NoValues /\ ~c.out.err
              /\ \A p \in RecordedFields(c.acc) \cup RecordedFields(c.out.acc) :
                    Recorded(c.out.acc, p[1], p[2]) = Recorded(c.acc, p[1], p[2])
        /\ \A e \in Range(unit.ended) :
              /\ e.out.idx = e.index
              /\ \A p \in RecordedFields(e.acc) \cup RecordedFields(e.out.acc) :
                    AppendedIfNew(e, p[1], p[2])
        /\ unit.phase = "done" =>
              /\ {<<l.measurement, l.fieldKey>> : l \in Range(unit.out)}
                    = {p \in RecordedFields(unit.acc) :
                          Cardinality(TypesOf(Recorded(unit.acc, p[1], p[2]))) >= 2}
              /\ \A i, j \in DOMAIN unit.out :
                    (/\ unit.out[i].measurement = unit.out[j].measurement
                     /\ unit.out[i].fieldKey = unit.out[j].fieldKey) => i = j

\* over two shards the idle of cpu was a float and an integer and the up of
\* cpu a boolean twice: two types are recorded for idle, one for up, and End
\* has written the line of idle only
MultipleTypesRecordedWitness ==
    /\ unit.rule.kind = "show-field-key-multiple-types"
    /\ unit.phase = "done"
    /\ unit.shards = 2
    /\ "idle" \in DOMAIN unit.ended[1].index.cur["cpu"]
    /\ unit.ended[1].index.cur["cpu"]["idle"] = "float"
    /\ "idle" \in DOMAIN unit.ended[2].index.cur["cpu"]
    /\ unit.ended[2].index.cur["cpu"]["idle"] = "integer"
    /\ unit.ended[1].index.cur["cpu"]["up"] = unit.ended[2].index.cur["cpu"]["up"]
    /\ Len(Recorded(unit.acc, "cpu", "up")) = 1
    /\ Recorded(unit.acc, "cpu", "idle")
          = <<[shard |-> 1, key |-> "idle", fieldType |-> "float"],
              [shard |-> 2, key |-> "idle", fieldType |-> "integer"]>>
    /\ Len(unit.out) = 1
    /\ unit.out[1].fieldKey = "idle"

(***************************************************************************)
(* Properties of update-tag-value and rename-field                         *)
(***************************************************************************)
\* C23: Apply of update-tag-value changes a key iff the measurement of the key
\* passes the measurement filter and its tag has a key that passes the key
\* filter and a value that passes the value filter; the value of the tag is
\* then replaced, by the replacement by to of what the pattern matches when
\* the value filter is a pattern filter and by to otherwise, the measurement,
\* the key of the tag, the field and the values being kept; any other key is
\* returned as it is.
UpdateTagValueApplies ==
    Driven("update-tag-value") =>
        \A c \in UnitCalls :
            LET r == unit.rule
                newValue == IF r.value.type = "pattern"
                            THEN ReplaceAll(r.value, c.key.t, r.to)
                            ELSE r.to
            IN  /\ ~c.out.err
                /\ c.out.values = c.values
                /\ c.out.key = IF /\ Filter(r.measurement, c.key.m)
                                  /\ Filter(r.key, "host")
                                  /\ Filter(r.value, c.key.t)
                               THEN MakeKey(c.key.m, newValue, c.key.f)
                               ELSE c.key

\* C24: Apply of a rename-field rule built from a configuration returns, for
\* a key whose measurement and field pass the filters, the key of the same
\* series with the field renamed, and the values it was given; it returns any
\* other key as it is.  The new name of the field is the replacement by to of
\* what the pattern matches when the field filter is a pattern filter, and
\* to otherwise.
RenameFieldApplies ==
    Driven("rename-field") =>
        \A c \in UnitCalls :
            LET r == unit.rule
                newField == IF r.field.type = "pattern"
                            THEN ReplaceAll(r.field, c.key.f, r.to)
                            ELSE r.to
            IN  /\ ~c.out.err
                /\ c.out.values = c.values
                /\ c.out.key = IF Filter(r.measurement, c.key.m) /\ Filter(r.field, c.key.f)
                               THEN MakeKey(c.key.m, c.key.t, newField)
                               ELSE c.key

\* the renames of a field of the measurement m to another name that Apply has
\* made in the shard
FieldRenames(m) ==
    {p \in {<<c.key.f, c.out.key.f>> : c \in {x \in UnitCalls : x.key.m = m}} : p[1] # p[2]}

\* C25: after EndShard of rename-field without error, for each measurement of
\* the index with a renamed field, the fields of the measurement hold, for
\* every rename of a field the index had, the new name with the type the old
\* name had and not the old name; the fields that were not renamed have the
\* names and the types they had.
RenameFieldEndsShard ==
    (Driven("rename-field") /\ unit.phase = "ended" /\ ~Ended.out.err) =>
        \A m \in DOMAIN Ended.index.cur :
            LET before == Ended.index.cur[m]
                after == unit.index.cur[m]
                old == {p[1] : p \in FieldRenames(m)}
            IN  /\ \A p \in FieldRenames(m) :
                      p[1] \in DOMAIN before =>
                          /\ p[2] \in DOMAIN after
                          /\ after[p[2]] = before[p[1]]
                          /\ p[1] \notin DOMAIN after
                /\ \A f \in (DOMAIN before) \ old : f \in DOMAIN after /\ after[f] = before[f]

(***************************************************************************)
(* The loader of the configuration (rules/config.go, filter/config.go):    *)
(* loadRule, UnmarshalConfig, Unmarshal and the Build of every rule.  A    *)
(* value of a parsed table (ast.Table) is a string or a table of fields.   *)
(***************************************************************************)
TomlString(str) == [table |-> FALSE, s |-> str, fields |-> EmptyMap]

TomlTable(fields) == [table |-> TRUE, s |-> "", fields |-> fields]

\* the table without the field k: delete(table.Fields, k)
Delete(table, k) == [x \in (DOMAIN table) \ {k} |-> table[x]]

\* the names RegisterFilter is called with in init
RegisteredFilters == {"pattern", "file", "serie", "where"}

\* the names RegisterRule is called with in init
RegisteredRules ==
    {"drop-measurement", "drop-serie", "drop-field", "old-serie", "rename-field",
     "rename-measurement", "rename-tag", "show-field-key-multiple-types",
     "update-field-type", "update-tag-value"}

\* strings.ToLower on the names of the fields of the configurations
ToLower(str) ==
    CASE str = "From" -> "from"
      [] str = "To" -> "to"
      [] str = "Measurement" -> "measurement"
      [] str = "Field" -> "field"
      [] str = "Type" -> "type"
      [] str = "Tag" -> "tag"
      [] str = "Key" -> "key"
      [] str = "Value" -> "value"
      [] str \in {"DropFilter", "dropFilter"} -> "dropfilter"
      [] str \in {"FromType", "fromType"} -> "fromtype"
      [] str \in {"ToType", "toType"} -> "totype"
      [] str = "Time" -> "time"
      [] OTHER -> str

EqualFold(a, b) == ToLower(a) = ToLower(b)

\* regexp.Compile on the patterns of the configurations: the filter of what
\* the pattern matches, or an error
Compile(pattern) ==
    CASE pattern = "^(cpu|disk)$" -> [filter |-> PatternFilter({"cpu", "disk"}), err |-> ""]
      [] pattern = "^(idle|up)$" -> [filter |-> PatternFilter({"idle", "up"}), err |-> ""]
      [] pattern = "(" -> [filter |-> NilFilter, err |-> "missing closing )"]

\* unmarshalTable and Build of the configuration of the filter registered as
\* name: PatternFilterConfig takes Pattern of the key pattern
FilterConfigBuild(name, table) ==
    CASE name = "pattern" ->
            LET Pattern == IF "pattern" \in DOMAIN table.fields
                           THEN table.fields["pattern"].s ELSE ""
            IN  IF Pattern = ""
                THEN [filter |-> NilFilter, err |-> "pattern must not be empry"]
                ELSE Compile(Pattern)

\* what Unmarshal returns: the filter (nil or not), the error ("" is nil), whether
\* it panicked, and the table it leaves
Unmarshalled(f, e, fault, table) ==
    [filter |-> f, err |-> e, fault |-> fault, table |-> table]

\* Unmarshal(table, name): the filter of the field name of a configuration
Unmarshal(table, name) ==
    LET found == {filterName \in DOMAIN table : EqualFold(filterName, name)}
    IN  IF found = {} THEN Unmarshalled(NilFilter, "", FALSE, table)
        ELSE LET filterName == CHOOSE k \in found : TRUE
                 subFilter == table[filterName]
                 keys == DOMAIN subFilter.fields
                 invalid == Unmarshalled(NilFilter, "Invalid filter configuration", FALSE, table)
             IN  IF ~subFilter.table THEN invalid
                 ELSE IF Cardinality(keys) > 1 THEN invalid
                 \* keys[0] of an empty slice: index out of range
                 ELSE IF keys = {} THEN Unmarshalled(NilFilter, "", TRUE, table)
                 ELSE LET key == CHOOSE k \in keys : TRUE
                          filterField == subFilter.fields[key]
                      IN  IF ~filterField.table THEN invalid
                          ELSE IF key \notin RegisteredFilters
                          THEN Unmarshalled(NilFilter, "No registered filter", FALSE, table)
                          ELSE LET built == FilterConfigBuild(key, filterField)
                               IN  Unmarshalled(built.filter, built.err, FALSE,
                                                Delete(table, filterName))

\* the configuration NewRule returns: every field has the zero value
ZeroConfig ==
    [From |-> NilFilter, DropFilter |-> NilFilter, Measurement |-> NilFilter,
     Field |-> NilFilter, Type |-> NilFilter, Tag |-> NilFilter, Key |-> NilFilter,
     Value |-> NilFilter, To |-> "", FromType |-> "", ToType |-> "", Time |-> ""]

\* the fields of type filter.Filter of the configuration of a rule, in the
\* order of the declaration
FilterFields(name) ==
    CASE name = "rename-measurement" -> <<"From">>
      [] name \in {"drop-measurement", "drop-serie"} -> <<"DropFilter">>
      [] name = "drop-field" -> <<"Measurement", "Field", "Type">>
      [] name = "rename-tag" -> <<"Measurement", "Tag">>
      [] name = "update-tag-value" -> <<"Measurement", "Key", "Value">>
      [] name = "old-serie" -> <<>>
      [] OTHER -> <<"Measurement", "Field">>

\* its other fields
StringFields(name) ==
    CASE name \in {"rename-measurement", "rename-field", "rename-tag", "update-tag-value"} -> {"To"}
      [] name = "update-field-type" -> {"FromType", "ToType"}
      [] name = "old-serie" -> {"Time"}
      [] OTHER -> {}

RECURSIVE UnmarshalFields(_, _, _)
\* UnmarshalConfig: the loop over the fields of the configuration; a field that
\* is not a filter is passed over
UnmarshalFields(table, c, fields) ==
    IF fields = <<>> THEN [config |-> c, err |-> "", fault |-> FALSE, table |-> table]
    ELSE LET u == Unmarshal(table, Head(fields))
         IN  IF u.fault \/ u.err # ""
             THEN [config |-> c, err |-> u.err, fault |-> u.fault, table |-> u.table]
             ELSE UnmarshalFields(u.table,
                                  IF u.filter # NilFilter
                                  THEN [c EXCEPT ![Head(fields)] = u.filter]
                                  ELSE c,
                                  Tail(fields))

UnmarshalConfig(table, name) == UnmarshalFields(table, ZeroConfig, FilterFields(name))

\* time.Parse(time.RFC3339, value), the time in nanoseconds
ParseTime(value) ==
    CASE value = "1970-01-01T00:00:00.000000002Z" -> [unixNano |-> 2, err |-> ""]
      [] OTHER -> [unixNano |-> 0, err |-> "cannot parse"]

\* influxql.DataTypeFromString
DataTypeFromString(str) ==
    IF str \in {"float", "integer", "boolean", "string"} THEN str ELSE "unknown"

NilRule == [BaseRule EXCEPT !.kind = "nil"]

Built(r) == [rule |-> r, err |-> ""]

BuildError(e) == [rule |-> NilRule, err |-> e]

NewRenameTagRule(measurementFilter, tagFilter, to) ==
    [BaseRule EXCEPT !.kind = "rename-tag", !.measurement = measurementFilter,
                     !.key = tagFilter, !.to = to]

\* Build of the configuration c of the rule registered as name
ConfigBuild(name, c) ==
    CASE name = "rename-measurement" ->
            IF c.From = NilFilter THEN BuildError("missing from filter")
            ELSE IF c.To = "" THEN BuildError("missing rename 'to'")
            ELSE Built(NewRenameMeasurementWithFilter(c.From, c.To))
      [] name = "drop-measurement" -> Built(NewDropMeasurementWithFilter(c.DropFilter))
      [] name = "drop-serie" -> Built(DropSerieRuleConfigBuild(c.DropFilter))
      [] name = "drop-field" ->
            IF c.Measurement = NilFilter THEN BuildError("missing measurement filter")
            ELSE IF c.Field = NilFilter THEN BuildError("missing field filter")
            ELSE Built(NewDropField(c.Measurement, c.Field,
                                    IF c.Type = NilFilter THEN AlwaysTrueFilter ELSE c.Type))
      [] name = "old-serie" ->
            IF ParseTime(c.Time).err # "" THEN BuildError(ParseTime(c.Time).err)
            ELSE Built(NewOldSerieRule(ParseTime(c.Time).unixNano, FALSE))
      [] name = "rename-field" ->
            IF c.Measurement = NilFilter THEN BuildError("missing measurement filter")
            ELSE IF c.Field = NilFilter THEN BuildError("missing field filter")
            ELSE Built(NewRenameField(c.Measurement, c.Field, c.To))
      [] name = "rename-tag" ->
            IF c.To = "" THEN BuildError("missing rename 'to'")
            ELSE IF c.Measurement = NilFilter THEN BuildError("missing measurement filter")
            ELSE IF c.Tag = NilFilter THEN BuildError("missing tag filter")
            ELSE Built(NewRenameTagRule(c.Measurement, c.Tag, c.To))
      [] name = "show-field-key-multiple-types" ->
            Built(NewShowFieldKeyMultipleTypes(
                      IF c.Measurement = NilFilter THEN AlwaysTrueFilter ELSE c.Measurement,
                      IF c.Field = NilFilter THEN AlwaysTrueFilter ELSE c.Field))
      [] name = "update-field-type" ->
            IF DataTypeFromString(c.FromType) = "unknown" THEN BuildError("unknown InfluxQL type")
            ELSE IF DataTypeFromString(c.ToType) = "unknown" THEN BuildError("unknown InfluxQL type")
            ELSE IF c.Measurement = NilFilter THEN BuildError("missing measurement filter")
            ELSE IF c.Field = NilFilter THEN BuildError("missing field filter")
            ELSE Built(NewUpdateFieldType(c.Measurement, c.Field,
                                          DataTypeFromString(c.FromType),
                                          DataTypeFromString(c.ToType)))
      [] name = "update-tag-value" ->
            IF c.To = "" THEN BuildError("missing rename 'to'")
            ELSE IF c.Measurement = NilFilter THEN BuildError("missing measurement filter")
            ELSE IF c.Key = NilFilter THEN BuildError("missing tag key filter")
            ELSE IF c.Value = NilFilter THEN BuildError("missing tag value filter")
            ELSE Built(NewUpdateTagValueRule(c.Measurement, c.Key, c.Value, c.To))

\* loadRule(name, table): what it returns, whether it panicked, the
\* configuration Build was called on and how far it went
loadRule(name, table) ==
    IF name \notin RegisteredRules
    THEN [rule |-> NilRule, err |-> "no registered rule", fault |-> FALSE,
          config |-> ZeroConfig, at |-> "NewRule"]
    ELSE LET u == UnmarshalConfig(table, name)
         IN  IF u.fault \/ u.err # ""
             THEN [rule |-> NilRule, err |-> u.err, fault |-> u.fault,
                   config |-> u.config, at |-> "UnmarshalConfig"]
             ELSE [rule |-> ConfigBuild(name, u.config).rule,
                   err |-> ConfigBuild(name, u.config).err, fault |-> FALSE,
                   config |-> u.config, at |-> "Build"]

(***************************************************************************)
(* The file filter (filter/filter.go).  The content of a file is a         *)
(* sequence of runs [c, n], the byte c repeated n times, so that a line    *)
(* longer than the buffer of the scanner can be written down.  A line the  *)
(* scanner returns is kept as its first MaxKeyLen bytes and its size,      *)
(* which tells it from every key of MaxKeyLen bytes or less.               *)
(***************************************************************************)
\* bufio.MaxScanTokenSize
MaxScanTokenSize == 65536

MaxKeyLen == 3

RECURSIVE Repeat(_, _)
Repeat(c, n) == IF n = 0 THEN "" ELSE c \o Repeat(c, n - 1)

Min(a, b) == IF a < b THEN a ELSE b

NoLine == [text |-> "", size |-> 0, last |-> ""]

\* the run [c, n] appended to the line
AppendRun(line, c, n) ==
    [text |-> IF line.size < MaxKeyLen
              THEN line.text \o Repeat(c, Min(n, MaxKeyLen - line.size))
              ELSE line.text,
     size |-> line.size + n,
     last |-> c]

\* dropCR: the line without its last byte when that is a carriage return
dropCR(line) ==
    IF line.size > 0 /\ line.last = "\r"
    THEN [text |-> IF line.size <= MaxKeyLen
                   THEN SubSeq(line.text, 1, line.size - 1) ELSE line.text,
          size |-> line.size - 1]
    ELSE [text |-> line.text, size |-> line.size]

RECURSIVE ScanLines(_, _, _)
\* the loop over scanner.Scan() with the split function bufio.ScanLines: the
\* lines put in the map.  Scan returns false, its error left unread, when the
\* buffer is full of MaxScanTokenSize bytes that hold no newline.
ScanLines(runs, line, lines) ==
    IF runs = <<>>
    THEN IF line.size = 0 \/ line.size >= MaxScanTokenSize THEN lines
         ELSE lines \cup {dropCR(line)}
    ELSE IF Head(runs).c = "\n"
    THEN IF line.size >= MaxScanTokenSize THEN lines
         ELSE ScanLines(Tail(runs), NoLine,
                        lines \cup {dropCR(line)}
                              \cup (IF Head(runs).n > 1 THEN {dropCR(NoLine)} ELSE {}))
    ELSE IF line.size >= MaxScanTokenSize THEN lines
    ELSE ScanLines(Tail(runs), AppendRun(line, Head(runs).c, Head(runs).n), lines)

\* NewFileFilter(path) on a file that opens, of the content runs
NewFileFilter(runs) == [type |-> "file", lines |-> ScanLines(runs, NoLine, {})]

\* FileFilter.Filter
FileFilterFilter(f, key) == [text |-> key, size |-> Len(key)] \in f.lines

(***************************************************************************)
(* The loader driven alone: Unmarshal on the table of one filter field,    *)
(* loadRule on the table of a rule entry, Build on a configuration whose   *)
(* fields were set by hand.                                                *)
(***************************************************************************)
PatternTable(pattern) ==
    TomlTable([pattern |-> TomlTable([pattern |-> TomlString(pattern)])])

\* the sub-tables that are not one registered filter that builds
BadShapes ==
    {TomlString("cpu"),
     TomlTable(EmptyMap),
     TomlTable([pattern |-> TomlTable([pattern |-> TomlString("^(cpu|disk)$")]),
                where |-> TomlTable([host |-> TomlString("h1")])]),
     TomlTable([pattern |-> TomlString("^(cpu|disk)$")]),
     TomlTable([regex |-> TomlTable([pattern |-> TomlString("^(cpu|disk)$")])]),
     PatternTable("("),
     PatternTable("")}

GoodShapes == {PatternTable("^(cpu|disk)$"), PatternTable("^(idle|up)$")}

\* the tables Unmarshal is called on for the field Measurement
UnmarshalTables ==
    {EmptyMap, [field |-> PatternTable("^(idle|up)$")]}
    \cup {[measurement |-> shape] : shape \in BadShapes \cup GoodShapes}
    \cup {[Measurement |-> shape, to |-> TomlString("busy")] : shape \in GoodShapes}

\* the key of the field of a configuration in the samples
TomlKey(field) ==
    CASE field = "DropFilter" -> "dropFilter"
      [] field = "FromType" -> "fromType"
      [] field = "ToType" -> "toType"
      [] OTHER -> ToLower(field)

\* the value an entry gives to the field of a rule
TomlValue(name, field) ==
    CASE field = "To" -> TomlString(IF name = "rename-measurement" THEN "linux.$1" ELSE "busy")
      [] field = "FromType" -> TomlString("float")
      [] field = "ToType" -> TomlString("integer")
      [] field = "Time" -> TomlString("1970-01-01T00:00:00.000000002Z")
      [] field = "Field" -> PatternTable("^(idle|up)$")
      [] OTHER -> PatternTable("^(cpu|disk)$")

ConfigFields(name) == Range(FilterFields(name)) \cup StringFields(name)

\* the entries of a rule: any of its fields given, and all of them given with
\* a first filter that is not one registered filter that builds
RuleEntries(name) ==
    {[k \in {TomlKey(f) : f \in given} |->
          TomlValue(name, CHOOSE f \in given : TomlKey(f) = k)] :
        given \in SUBSET ConfigFields(name)}
    \cup {[k \in {TomlKey(f) : f \in ConfigFields(name)} |->
              IF FilterFields(name) # <<>> /\ k = TomlKey(Head(FilterFields(name)))
              THEN shape
              ELSE TomlValue(name, CHOOSE f \in ConfigFields(name) : TomlKey(f) = k)] :
            shape \in BadShapes}

\* the configurations Build is called on: any of the fields set
RuleConfigs(name) ==
    {[f \in DOMAIN ZeroConfig |->
          IF f \notin given THEN ZeroConfig[f]
          ELSE IF TomlValue(name, f).table
          THEN FilterConfigBuild("pattern", TomlValue(name, f).fields["pattern"]).filter
          ELSE TomlValue(name, f).s] :
        given \in SUBSET ConfigFields(name)}

LoadNames == RegisteredRules \cup {"drop-tag"}

\* the runs of the contents of the files: a or b, a carriage return, one or
\* two newlines, and as many a as fill the buffer of the scanner less one, or
\* fill it
FileRuns ==
    {[c |-> "a", n |-> 1], [c |-> "b", n |-> 1], [c |-> "\r", n |-> 1],
     [c |-> "\n", n |-> 1], [c |-> "\n", n |-> 2],
     [c |-> "a", n |-> MaxScanTokenSize - 1], [c |-> "a", n |-> MaxScanTokenSize]}

MaxRuns == 4

FileContents == UNION {[1..n -> FileRuns] : n \in 0..MaxRuns}

FileKeys == {"", "a", "b", "ab", "a\nb", "a\r"}

NoOutcome == <<>>

LoadInit ==
    /\ config = <<>>
    /\ cmd = NoCommand
    /\ rstate = <<>>
    /\ phase = <<>>
    /\ pc = "load"
    /\ err = ""
    /\ si = 0
    /\ fi = 0
    /\ wi = 0
    /\ index = ShardIndex(EmptyMap, EmptyMap)
    /\ tsm = NoTSM
    /\ ki = 0
    /\ w = NoopTSMRewriter
    /\ files = <<>>
    /\ chains = <<>>
    /\ writes = <<>>
    /\ wal = NoWAL
    /\ shardLog = <<>>
    /\ saves = 0
    /\ emitted = {}
    /\ build \in Builds
    /\ \/ \E table \in UnmarshalTables :
             unit = [phase |-> "table", name |-> "Measurement", table |-> table,
                     config |-> ZeroConfig, out |-> NoOutcome]
       \/ \E name \in LoadNames :
             \E table \in RuleEntries(name) :
                unit = [phase |-> "entry", name |-> name, table |-> table,
                        config |-> ZeroConfig, out |-> NoOutcome]
       \/ \E name \in RegisteredRules :
             \E c \in RuleConfigs(name) :
                unit = [phase |-> "config", name |-> name, table |-> EmptyMap,
                        config |-> c, out |-> NoOutcome]
       \/ \E key \in FileKeys, runs \in FileContents :
             unit = [phase |-> "file", name |-> key, table |-> runs,
                     config |-> ZeroConfig, out |-> NoOutcome]

\* filter.Unmarshal(table, name)
TestUnmarshal ==
    /\ unit.phase = "table"
    /\ unit' = [unit EXCEPT !.phase = "unmarshalled",
                            !.out = Unmarshal(unit.table, unit.name)]
    /\ UNCHANGED Pipeline

\* loadRule(name, table)
TestLoadRule ==
    /\ unit.phase = "entry"
    /\ unit' = [unit EXCEPT !.phase = "loaded", !.out = loadRule(unit.name, unit.table)]
    /\ UNCHANGED Pipeline

\* config.Build() on a configuration set by hand
TestBuild ==
    /\ unit.phase = "config"
    /\ unit' = [unit EXCEPT !.phase = "built", !.out = ConfigBuild(unit.name, unit.config)]
    /\ UNCHANGED Pipeline

\* NewFileFilter(path) and Filter(key) on the filter it returns
TestFileFilter ==
    /\ unit.phase = "file"
    /\ unit' = [unit EXCEPT !.phase = "filtered",
                            !.out = FileFilterFilter(NewFileFilter(unit.table), unit.name)]
    /\ UNCHANGED Pipeline

LoadNext ==
    \/ TestUnmarshal
    \/ TestLoadRule
    \/ TestBuild
    \/ TestFileFilter

LoadSpec == LoadInit /\ [][LoadNext]_vars

(***************************************************************************)
(* Properties of the loader                                                *)
(***************************************************************************)
\* the filter the loader is to make of a sub-table of GoodShapes
FilterOf(shape) ==
    IF shape = PatternTable("^(cpu|disk)$") THEN PatternFilter({"cpu", "disk"})
    ELSE PatternFilter({"idle", "up"})

\* the Sample of rename-measurement: to="linux.$1", [from.pattern]
\* pattern="^(cpu|disk)$"
RenameMeasurementSample ==
    [to |-> TomlString("linux.$1"), from |-> PatternTable("^(cpu|disk)$")]

\* C26: when loadRule has unmarshalled an entry without error, the
\* configuration Build is called on holds, for every field that is not a
\* filter, the value the entry gives, and for every filter field the filter
\* of its sub-table; and the Sample of a rule is loaded into a rule without
\* error.
LoaderPopulates ==
    (unit.phase = "loaded" /\ unit.out.at = "Build") =>
        /\ \A f \in StringFields(unit.name) :
              TomlKey(f) \in DOMAIN unit.table =>
                  unit.out.config[f] = unit.table[TomlKey(f)].s
        /\ \A f \in Range(FilterFields(unit.name)) :
              TomlKey(f) \in DOMAIN unit.table =>
                  unit.out.config[f] = FilterOf(unit.table[TomlKey(f)])
        /\ (unit.name = "rename-measurement" /\ unit.table = RenameMeasurementSample) =>
              (unit.out.err = "" /\ unit.out.rule # NilRule)

\* the table has one child, a table, whose key is a registered filter that
\* builds
OneRegisteredFilter(value) ==
    /\ value.table
    /\ Cardinality(DOMAIN value.fields) = 1
    /\ \A k \in DOMAIN value.fields :
          /\ value.fields[k].table
          /\ k \in RegisteredFilters
          /\ "pattern" \in DOMAIN value.fields[k].fields
          /\ value.fields[k].fields["pattern"].s \in {"^(cpu|disk)$", "^(idle|up)$"}

\* C27: Unmarshal never panics; it returns a filter and no error when the
\* table of the field has exactly one child that is the table of a
\* registered filter that builds, an error and no filter for any other
\* table of the field, and neither a filter nor an error when the table has
\* no entry for the field.
FilterShapeChecked ==
    unit.phase = "unmarshalled" =>
        LET found == {k \in DOMAIN unit.table : EqualFold(k, unit.name)}
        IN  /\ ~unit.out.fault
            /\ found = {} => (unit.out.filter = NilFilter /\ unit.out.err = "")
            /\ \A k \in found :
                  IF OneRegisteredFilter(unit.table[k])
                  THEN unit.out.filter # NilFilter /\ unit.out.err = ""
                  ELSE unit.out.filter = NilFilter /\ unit.out.err # ""

\* the filters a rule cannot do without, and whether it needs to
MandatoryFilters(name) ==
    CASE name = "drop-field" -> {"Measurement", "Field"}
      [] name = "show-field-key-multiple-types" -> {}
      [] OTHER -> Range(FilterFields(name))

NeedsTo(name) == "To" \in StringFields(name)

\* the filter the rule r holds for the field of its configuration
HeldFilter(r, field) ==
    CASE field \in {"From", "Measurement"} -> r.measurement
      [] field = "DropFilter" ->
            IF r.kind = "drop-serie" THEN r.dropFilter.filter ELSE r.measurement
      [] field = "Field" -> r.field
      [] field \in {"Tag", "Key"} -> r.key
      [] field = "Value" -> r.value

\* C28: Build returns an error and no rule when a mandatory filter of the
\* configuration is nil or when the rule renames and to is empty, and a rule
\* it returns holds no nil mandatory filter.
MandatoryChecked ==
    unit.phase = "built" =>
        LET absent == \/ \E f \in MandatoryFilters(unit.name) : unit.config[f] = NilFilter
                      \/ NeedsTo(unit.name) /\ unit.config.To = ""
        IN  /\ absent => (unit.out.err # "" /\ unit.out.rule = NilRule)
            /\ unit.out.rule # NilRule =>
                  \A f \in MandatoryFilters(unit.name) :
                      HeldFilter(unit.out.rule, f) # NilFilter

(***************************************************************************)
(* Properties of the rewrite of a WAL file and of the files that cannot be *)
(* read                                                                    *)
(***************************************************************************)
\* a rule that takes the WAL file carries the flag WALWriteOnly
WALWriteRuleActive ==
    \E i \in Range(filterRules([i \in RuleIds |-> i], StartWAL)) :
        WALWriteOnly \in Flags(cmd.rules[i])

\* C29: a WAL file has a writer on a temporary file, and is replaced by what
\* was written, only when check mode is off and a rule that takes the file
\* carries the flag WALWriteOnly, and it has a writer whenever that is so;
\* with read-only rules alone, or in check mode, there is no temporary file
\* and the WAL file is not replaced.
WALRewriteCondition ==
    /\ pc = "entries" => (wal.writer <=> (~cmd.check /\ WALWriteRuleActive))
    /\ (wal.writer \/ wal.replaced) => (~cmd.check /\ WALWriteRuleActive)

\* C30: a TSM file that cannot be opened is not replaced, and a WAL file
\* whose entry loop was left on an entry that cannot be read or encoded is
\* not replaced by what was written up to that entry.
CorruptFileSkipped ==
    /\ (fi > 0 /\ ~tsm.readable) => (~tsm.replaced /\ tsm.disk = tsm.orig /\ w.kind = "noop")
    /\ wal.done => ~wal.replaced

(***************************************************************************)
(* Properties of the file filter                                           *)
(***************************************************************************)
RECURSIVE TotalSize(_)
\* the number of bytes of the content
TotalSize(runs) == IF runs = <<>> THEN 0 ELSE Head(runs).n + TotalSize(Tail(runs))

RECURSIVE ByteAt(_, _)
\* the byte at the position i of the content, from 1
ByteAt(runs, i) ==
    IF i <= Head(runs).n THEN Head(runs).c ELSE ByteAt(Tail(runs), i - Head(runs).n)

\* the positions of the newlines of the content
Newlines(runs) ==
    UNION {IF runs[k].c = "\n"
           THEN {TotalSize(SubSeq(runs, 1, k - 1)) + j : j \in 1..runs[k].n}
           ELSE {} : k \in DOMAIN runs}

\* the positions where a line starts: the first byte and the byte after each
\* newline
LineStarts(runs) ==
    {p \in {1} \cup {q + 1 : q \in Newlines(runs)} : p <= TotalSize(runs)}

\* the line that starts at the position p is key: the bytes of key, none of
\* them a newline, then the
\* end of the line, a newline or the end of the file; a carriage return
\* before the end of the line is not of the line
WholeLineAt(runs, p, key) ==
    LET total == TotalSize(runs)
        q == p + Len(key)
        ends(i) == i > total \/ ByteAt(runs, i) = "\n"
    IN  /\ \A j \in 1..Len(key) :
              /\ p + j - 1 <= total
              /\ ByteAt(runs, p + j - 1) = SubSeq(key, j, j)
              /\ SubSeq(key, j, j) # "\n"
        /\ \/ ends(q) /\ (key = "" \/ SubSeq(key, Len(key), Len(key)) # "\r")
           \/ q <= total /\ ByteAt(runs, q) = "\r" /\ ends(q + 1)

\* C31: the file filter returns true for a key when, and only when, a whole
\* line of the file is the key.
FileMembership ==
    unit.phase = "filtered" =>
        (unit.out <=> \E p \in LineStarts(unit.table) : WholeLineAt(unit.table, p, unit.name))

(***************************************************************************)
(* Properties of the loop over the keys of a WAL entry                     *)
(***************************************************************************)
\* the entry the last turn of the entry loop read
LastEntry == wal.orig[Len(wal.orig)]

\* the last turn of the entry loop ranged over the keys of a write entry
EntryRanged == wal.orig # <<>> /\ LastEntry.type = "write" /\ wal.chains # <<>>

\* C32: in the WAL pass, once a write rule has returned a nil key for a key of
\* a write entry, no later write rule is applied to the key and none returns
\* an error for it, and the key is put in toDelete and is not in the map of
\* the entry afterwards.
WALChainBreaksOnNil ==
    EntryRanged =>
        \A c \in Range(wal.chains) :
            \A i \in DOMAIN c.applied :
                c.applied[i].key = NullKey =>
                    /\ i = Len(c.applied)
                    /\ ~c.err
                    /\ c.key \in wal.toDelete
                    /\ c.key \notin DOMAIN wal.values

(***************************************************************************)
(* Properties of the cached rewriter in the pass of a TSM file             *)
(***************************************************************************)
\* the value v written for key is in the cache or in a file that a snapshot
\* wrote and registered in tsmFiles
Held(key, v) ==
    \/ key \in DOMAIN w.cache /\ v \in Range(w.cache[key])
    \/ \E i \in DOMAIN w.tsmFiles :
          key \in DOMAIN w.tsmFiles[i] /\ v \in Range(w.tsmFiles[i][key])

ReadOnlyKinds == {"old-serie", "show-field-key-multiple-types"}

\* the rules of cmd.rules that rewrite and whose FilterKey takes the key, in
\* the order of the configuration
WriteChainFor(key) ==
    SelectSeq([i \in RuleIds |-> i],
              LAMBDA i : cmd.rules[i].kind \notin ReadOnlyKinds /\ FilterKey(cmd.rules[i], key))

\* the write to the rewriter made for the key at place src of the file
WrittenFor(src) == {writes[i] : i \in {j \in DOMAIN writes : writes[j].src = src}}

\* C34: for a key that went through the rules without error, what is written
\* to the rewriter is what the rules that rewrite make of the original key and
\* values: nothing if they end on a nil key, else the key and values they
\* return.  What the rules that only read returned has no part in it.
ReadRulesIgnored ==
    \A n \in DOMAIN chains :
        LET c == chains[n]
            kept == ApplyWriteRules(WriteChainFor(c.key), rstate, c.key, c.values, <<>>,
                                    BreakOnNil)
        IN  ~c.err =>
                /\ \A i \in DOMAIN c.applied :
                      cmd.rules[c.applied[i].rule].kind \notin ReadOnlyKinds
                /\ WrittenFor(c.src) =
                      IF kept.key = NullKey THEN {}
                      ELSE {[src |-> c.src, key |-> kept.key, values |-> kept.values]}

\* a key for which a read rule returned a nil key was written as the write
\* rules returned it, under another key
ReadRulesIgnoredWitness ==
    \E n \in DOMAIN chains :
        /\ ~chains[n].err
        /\ \E i \in DOMAIN chains[n].reads : chains[n].reads[i].key = NullKey
        /\ chains[n].applied # <<>>
        /\ \E x \in WrittenFor(chains[n].src) : x.key # chains[n].key

(***************************************************************************)
(* Properties of the keys of a TSM file that the key loop passes over      *)
(***************************************************************************)
\* the key loop goes on to the next key before ReadAll: the global filter
\* takes the key, or no rule of the file does
PassedOver(key) ==
    \/ GlobalFilterKey(cmd.filter, key)
    \/ /\ Len(RulesForKey(TSMReadOnly, key)) = 0
       /\ Len(RulesForKey(TSMWriteOnly, key)) = 0

\* C35: after a pass of a TSM file that completed with the cached rewriter and
\* renamed the compacted file onto the path of the segment, every key of the
\* segment that the key loop passed over is in the file at the path with the
\* values it had.
PassedOverKeysKept ==
    (/\ pc = "tsm"
     /\ fi >= 1
     /\ tsm.readable
     /\ w.kind = "cached"
     /\ tsm.replaced)
        => \A key \in DOMAIN tsm.orig :
              PassedOver(key) => key \in DOMAIN AtPath /\ AtPath[key] = DataOf(key)

(***************************************************************************)
(* Properties of FilterKey against Apply                                   *)
(***************************************************************************)
\* the call of Apply changed nothing: the rule kept what it has noted, and a
\* rule that rewrites returned the key and the values it was given
Untouched(c) ==
    /\ ~c.out.err
    /\ c.out.acc = c.acc
    /\ unit.rule.kind \notin ReadOnlyKinds => c.out.key = c.key /\ c.out.values = c.values

\* C36: for every rule and every key for which FilterKey of the rule is false,
\* Apply on the key returns it with its values and notes nothing, so that a
\* pass that asks FilterKey first leaves out no key the rule would change.
\* DropSerieRule is left aside, the sources holding no FilterKey for it.
FilterKeySound ==
    (unit.phase \in {"shard", "ended"} /\ unit.rule.kind # "drop-serie") =>
        \A c \in UnitCalls \cup Range(unit.past) :
            ~FilterKey(unit.rule, c.key) => Untouched(c)

(***************************************************************************)
(* Properties of the order in which the keys of a WAL entry are visited    *)
(***************************************************************************)
\* the write rules of the WAL file
WALWriteRules == filterFlaggedRules(filterRules([i \in RuleIds |-> i], StartWAL), WALWriteOnly)

\* the turns of the loop over the keys of the entry made on key
TurnsOn(key) == {i \in DOMAIN wal.chains : wal.chains[i].key = key}

\* C37: after a write entry of a WAL file went through the rules without
\* error, whatever the order in which the map was ranged over: every key the
\* entry held was given to the rules once, no key put in the map by the loop
\* was given to them, and for every key the entry held for which the write
\* rules return a key, the map holds that key with the values they return.
WALEntryOrderFree ==
    (EntryRanged /\ err = "") =>
        /\ \A i \in DOMAIN wal.chains : wal.chains[i].key \in DOMAIN LastEntry.values
        /\ \A key \in DOMAIN LastEntry.values :
              LET kept == ApplyWriteRules(WALWriteRules, rstate, key, LastEntry.values[key],
                                          <<>>, NoBreakOnNil)
              IN  /\ Cardinality(TurnsOn(key)) = 1
                  /\ (~kept.err /\ kept.key # NullKey) =>
                        /\ kept.key \in DOMAIN wal.values
                        /\ wal.values[kept.key] = kept.values

(***************************************************************************)
(* Properties of the counters of drop-serie at the end of a file and of a  *)
(* shard                                                                   *)
(***************************************************************************)
\* C38: EndTSM and EndShard of a rule end without a runtime fault whatever the
\* number of calls of Apply since StartTSM and since StartShard, none
\* included: no percentage is taken of a count of zero.
EndCallbacksNeverFault ==
    unit.rule.kind \in Counting =>
        /\ \A f \in Range(unit.files) : ~f.out.fault
        /\ \A e \in Range(unit.ended) : ~e.out.err

(***************************************************************************)
(* The run as a whole: the command goes on as long as it has a step to     *)
(* take.  The loop over the entries of a WAL file is left by CloseWAL, so   *)
(* that no condition on ProcessWALEntry is needed for the run to go on.    *)
(***************************************************************************)
LiveSpec ==
    /\ Init
    /\ [][Next]_vars
    /\ WF_vars(LoadConfig)
    /\ WF_vars(Start)
    /\ WF_vars(EnterShard)
    /\ WF_vars(OpenTSM)
    /\ WF_vars(ProcessKey)
    /\ WF_vars(CompactTSM)
    /\ WF_vars(ReplaceTSM)
    /\ WF_vars(OpenWAL)
    /\ WF_vars(CloseWAL)
    /\ WF_vars(LeaveShard)
    /\ WF_vars(End)

\* Start was called on the rules, of which there is one at least
RulesStarted == pc \notin {"load", "start"} /\ cmd.rules # <<>>

\* process came to its end: End was called on every rule and the logger was
\* flushed
RulesEnded == pc = "done" /\ \A i \in RuleIds : phase[i] = "ended"

\* C39: in every run in which Start was called on the rules, End is called on
\* every rule and the logger is flushed in the end, also when the pass of a
\* shard fails.
EveryRunEndsRules == RulesStarted ~> RulesEnded
====
